---- MODULE Spec2Model ----
(***************************************************************************)
(* Pairing engine of OpenFielder (api/src/services/openFielderService.ts)  *)
(* over the Azure table adapter (api/src/services/tableStorage.ts).        *)
(*                                                                         *)
(* Every store operation (getEntity, upsertEntity, listEntities,           *)
(* deleteEntity) is one atomic step; a service call is the sequence of its *)
(* store operations,                                                       *)
(* and calls of different requests interleave between those steps.         *)
(* Coordinates are whole multiples of 30 degrees, where the sines and      *)
(* cosines of calculateDistance are tabulated; numbers are fixed-point     *)
(* integers and distances are in metres.                                   *)
(*                                                                         *)
(* Spec and SeqSpec start from the empty table and run the whole service;  *)
(* their geocoder answers every address with the same point, since no      *)
(* pairing operation reads a coordinate.  FindSpec starts from a populated *)
(* table with therapists at different latitudes and runs                   *)
(* findNearestTherapists on it.  GeoSpec runs one geocodeAddress call of   *)
(* api/src/services/geocodingService.ts against every sequence of upstream *)
(* answers.                                                                *)
(*                                                                         *)
(* A Date is either the instant a record was created or a later instant:   *)
(* `new Date()` inside updateTherapist/updateClient is a later instant.    *)
(***************************************************************************)
EXTENDS Integers, Sequences, FiniteSets, TLC

\* ---------------------------------------------------------------- bounds
MaxTherapists == 2
MaxClients == 1
MaxProcs == 2
\* FindSpec: the therapists in the table and the latitudes they are at
MaxListed == 3
MaxLatitude == 2
\* MapSpec: the callers of the frontend service whose geocodeAddress calls overlap
MaxMapCalls == 2
\* DeleteSpec: the clients in the store
MaxStoredClients == 2

\* ------------------------------------------------------- program constants
\* An optional property that is not set (clientId?: string, therapistId?: string).
Undefined == 0
\* const R = 6371 (kilometres)
R == 6371
\* Math.PI / 180 in micro-radians per degree
MicroRadPerDegree == 17453
\* 1.0 in the fixed-point numbers of calculateDistance
One == 10000
\* the angles whose sine is tabulated are the multiples of this many degrees
HalfStep == 15
\* maxResults: number = 10
DefaultMaxResults == 10
\* maxRetries: number = 3
MaxRetries == 3
\* retryOperation's delay parameter, in ms
BaseDelay == 1000
\* Math.random() * 1000: the jitter is below this, in ms
JitterRange == 1000

\* the ids a call is given: those uuidv4() can have handed out, and one more
\* that never resolves
ArgTherapistIds == 1..(MaxTherapists + 1)
ArgClientIds == 1..(MaxClients + 1)
\* the concurrent requests, and the one caller that issues its calls one after
\* the other and whose completed call stays on record
Procs == 1..MaxProcs
Caller == MaxProcs + 1
AllProcs == {Caller} \cup Procs
\* the latitudes therapists and clients are at in FindSpec, in degrees
Latitudes == {2 * HalfStep * i : i \in 0..MaxLatitude}
\* what the geocoder answers for an address in Spec and SeqSpec
Coordinates == {[latitude |-> 0, longitude |-> 0]}
\* the maxResults arguments tried
LimitInputs == {-1, 0, 1, 2, DefaultMaxResults}

\* getEntity's answer for a missing row (statusCode 404 -> null)
Null == [null |-> TRUE]

VARIABLES
    therapistTable,   \* partition 'THERAPIST': rowKey -> stored properties
    clientTable,      \* partition 'CLIENT': rowKey -> stored properties
    nextTherapistId,  \* next id uuidv4() hands to createTherapist
    nextClientId,     \* next id uuidv4() hands to createClient
    pc,               \* per request: the store operation it is about to issue
    call,             \* per request: the service call and its arguments
    request,          \* per request: the Update*Request being applied
    existing,         \* per request: what the last getEntity of the call returned
    outcome,          \* Caller: "ok" or the message of the Error its last call threw
    result,           \* Caller: the list its last findNearestTherapists returned
    pre,              \* Caller, in flight: the two tables as they were when the call began
    lastPair,         \* Caller: the call it completed last, if that was a successful
                      \* pairTherapistWithClient, and the tables as they were when it began
    response,         \* Caller: the status of the HttpResponseInit its last handler returned
    deleted,          \* the row keys a completed deleteEntity removed, per partition
    geocoding,        \* the geocodeAddress call: its position and what it has done so far
    frontend          \* the browser's MapGeocodingService: its cache and its calls

vars == <<therapistTable, clientTable, nextTherapistId, nextClientId,
          pc, call, request, existing, outcome, result, pre, lastPair,
          response, deleted, geocoding, frontend>>

tables == <<therapistTable, clientTable, nextTherapistId, nextClientId, deleted>>

\* --------------------------------------------------------- tableStorage.ts

\* getEntity: the stored row, or null when the table answers 404
getEntity(table, rowKey) ==
    IF rowKey \in DOMAIN table THEN table[rowKey] ELSE Null

\* tableClient.upsertEntity(entity, 'Merge'): a property whose value is
\* undefined is not sent, so a stored row keeps its old value for it.
OptionalProperties == {"clientId", "therapistId"}

IsUndefined(k, v) == k \in OptionalProperties /\ v = Undefined

MergeEntity(old, entity) ==
    [k \in DOMAIN old |-> IF IsUndefined(k, entity[k]) THEN old[k] ELSE entity[k]]

upsertEntity(table, rowKey, entity) ==
    IF rowKey \in DOMAIN table
    THEN [table EXCEPT ![rowKey] = MergeEntity(@, entity)]
    ELSE table @@ (rowKey :> entity)

\* tableClient.deleteEntity: the row is gone; a missing row (404) is no error
deleteEntity(table, rowKey) ==
    [k \in DOMAIN table \ {rowKey} |-> table[k]]

\* listEntities: the rows of the partition in rowKey order
RECURSIVE listEntitiesByPartition(_, _)
listEntitiesByPartition(table, from) ==
    IF \A k \in DOMAIN table : k < from THEN << >>
    ELSE IF from \in DOMAIN table
         THEN <<[id |-> from] @@ table[from]>> \o listEntitiesByPartition(table, from + 1)
         ELSE listEntitiesByPartition(table, from + 1)

\* ---------------------------------------------------- openFielderService.ts

\* degrees * (Math.PI / 180), in micro-radians
toRadians(degrees) == degrees * MicroRadPerDegree

Abs(x) == IF x < 0 THEN 0 - x ELSE x

\* x * y of two numbers in units of 1 / One: rounded, as the floating-point
\* product is, in the same way whatever the sign
Times(x, y) ==
    IF x * y < 0 THEN 0 - ((0 - x * y) \div One) ELSE (x * y) \div One

\* the sines of 15, 30, ... 90 degrees, in units of 1 / One
SinTable == <<2588, 5000, 7071, 8660, 9659, 10000>>

\* Math.sin of an angle in micro-radians that is a multiple of HalfStep
\* degrees: odd, of period 360 degrees, in units of 1 / One
Sin(x) ==
    LET k == (Abs(x) \div (HalfStep * MicroRadPerDegree)) % 24
        quarter(m) == IF m = 0 THEN 0
                      ELSE IF m <= 6 THEN SinTable[m]
                      ELSE SinTable[12 - m]
        half == IF k < 12 THEN quarter(k) ELSE 0 - quarter(k - 12)
    IN IF x < 0 THEN 0 - half ELSE half

\* Math.cos: the sine of the angle 90 degrees further
Cos(x) == Sin(x + 6 * HalfStep * MicroRadPerDegree)

\* the greatest r in lo..hi with r * r <= n
RECURSIVE SqrtBetween(_, _, _)
SqrtBetween(n, lo, hi) ==
    IF lo = hi THEN lo
    ELSE LET mid == (lo + hi + 1) \div 2
         IN IF mid * mid <= n THEN SqrtBetween(n, mid, hi)
            ELSE SqrtBetween(n, lo, mid - 1)

\* Math.sqrt of a number in 0..One, in units of 1 / One
Sqrt(v) == SqrtBetween(v * One, 0, One)

\* the arc tangent of z in 0..One (units of 1 / One), in milli-radians:
\* z * (pi/4 + 0.273 * (1 - z))
Atan(z) == (z * 785) \div One + (273 * ((z * (One - z)) \div One)) \div One

\* Math.atan2(y, x) for y, x >= 0, in milli-radians
Atan2(y, x) ==
    IF y = 0 THEN 0
    ELSE IF y <= x THEN Atan((y * One) \div x)
    ELSE 1571 - Atan((x * One) \div y)

\* (the cosine of the first latitude taken twice)
calculateDistance_FirstLatitudeTwice(lat1, lon1, lat2, lon2) ==
    LET dLat == toRadians(lat2 - lat1)
        dLon == toRadians(lon2 - lon1)
        a == Times(Sin(dLat \div 2), Sin(dLat \div 2))
             + Times(Times(Times(Cos(toRadians(lat1)), Cos(toRadians(lat1))),
                           Sin(dLon \div 2)),
                     Sin(dLon \div 2))
        c == 2 * Atan2(Sqrt(a), Sqrt(One - a))
    IN R * c

\* Haversine: a = sin^2(dLat/2) + cos(lat1) * cos(lat2) * sin^2(dLon/2),
\* c = 2 * atan2(sqrt(a), sqrt(1 - a)) in milli-radians, and the distance is
\* R * c, in metres.
calculateDistance(lat1, lon1, lat2, lon2) ==
    LET dLat == toRadians(lat2 - lat1)
        dLon == toRadians(lon2 - lon1)
        a == Times(Sin(dLat \div 2), Sin(dLat \div 2))
             + Times(Times(Times(Cos(toRadians(lat1)), Cos(toRadians(lat2))),
                           Sin(dLon \div 2)),
                     Sin(dLon \div 2))
        c == 2 * Atan2(Sqrt(a), Sqrt(One - a))
    IN R * c

getTherapistById(id) == getEntity(therapistTable, id)

getClientById(id) == getEntity(clientTable, id)

getAllTherapists == listEntitiesByPartition(therapistTable, 1)

\* { ...existing, ...request }: every key the request carries wins, also
\* when its value is undefined.
Spread(old, req) ==
    [k \in DOMAIN old |-> IF k \in DOMAIN req THEN req[k] ELSE old[k]]

\* const now = new Date() in createTherapist / createClient
CreationDate == "created"
\* new Date() in updateTherapist / updateClient
NewDate == "later"

\* (an update that stamps dateCreated as well)
Updated_StampsDateCreated(old, req) ==
    [Spread(old, req) EXCEPT !.dateCreated = NewDate, !.dateModified = NewDate]

\* const updated = { ...existing, ...request, dateModified: new Date() }
Updated(old, req) ==
    [Spread(old, req) EXCEPT !.dateModified = NewDate]

\* no HttpResponseInit: the call was made on the service, not through a handler
NoResponse == [status |-> "none"]

NoDeleted == [therapists |-> {}, clients |-> {}]

NoCall == [op |-> "none", therapistId |-> Undefined, clientId |-> Undefined,
           maxResults |-> 0]

NoPre == [therapists |-> << >>, clients |-> << >>]

NoPair == [call |-> NoCall, pre |-> NoPre]

Snapshot == [therapists |-> therapistTable, clients |-> clientTable]

\* only the Caller's calls are kept on record once they are over
Retain(p) == p = Caller

CanStart(p) == pc[p] \in {"idle", "done"}

\* call c begins and goes on to the store operation at label
Enter(p, c, label, req, read) ==
    /\ CanStart(p)
    /\ pc' = [pc EXCEPT ![p] = label]
    /\ call' = [call EXCEPT ![p] = c]
    /\ request' = [request EXCEPT ![p] = req]
    /\ existing' = [existing EXCEPT ![p] = read]
    /\ outcome' = [outcome EXCEPT ![p] = IF Retain(p) THEN "pending" ELSE "none"]
    /\ result' = [result EXCEPT ![p] = << >>]
    /\ pre' = [pre EXCEPT ![p] = IF Retain(p) THEN Snapshot ELSE NoPre]
    /\ response' = [response EXCEPT ![p] = NoResponse]
    /\ UNCHANGED <<lastPair, geocoding, frontend>>

\* the call in flight goes on to its next store operation
Continue(p, label, req, read) ==
    /\ pc' = [pc EXCEPT ![p] = label]
    /\ request' = [request EXCEPT ![p] = req]
    /\ existing' = [existing EXCEPT ![p] = read]
    /\ UNCHANGED <<call, outcome, result, pre, lastPair, response, geocoding, frontend>>

\* call c is over: it returns res (o = "ok") or throws Error(o); a handler
\* answers with resp
Respond(p, c, o, res, resp) ==
    /\ pc' = [pc EXCEPT ![p] = IF Retain(p) THEN "done" ELSE "idle"]
    /\ call' = [call EXCEPT ![p] = IF Retain(p) THEN c ELSE NoCall]
    /\ outcome' = [outcome EXCEPT ![p] = IF Retain(p) THEN o ELSE "none"]
    /\ result' = [result EXCEPT ![p] = IF Retain(p) THEN res ELSE << >>]
    /\ request' = [request EXCEPT ![p] = Null]
    /\ existing' = [existing EXCEPT ![p] = Null]
    /\ pre' = [pre EXCEPT ![p] = NoPre]
    /\ lastPair' = [lastPair EXCEPT ![p] =
           IF Retain(p) /\ c.op = "pairTherapistWithClient" /\ o = "ok"
           THEN [call |-> c, pre |-> pre[p]]
           ELSE NoPair]
    /\ response' = [response EXCEPT ![p] = IF Retain(p) THEN resp ELSE NoResponse]
    /\ UNCHANGED <<geocoding, frontend>>

\* a call on the service is over
Return(p, c, o, res) == Respond(p, c, o, res, NoResponse)

\* the call in flight returns or throws
Finish(p, o) == Return(p, call[p], o, << >>)

\* a call that is over after its first store operation
OneStep(p, c, o) == CanStart(p) /\ Return(p, c, o, << >>)

\* -------------------------------------------------------- geocodingService.ts
\* An error message is the set of the words isRetryableError looks for that
\* the lower-cased message contains.
NetworkWords == {"fetch", "network", "timeout", "connection"}
RetryStatusWords == {"500", "502", "503", "504", "429"}
AuthWords == {"401", "unauthorized"}
ClientErrorWords == {"400", "403", "404"}

\* the scopes getAccessToken tries, in order
Scopes == <<"https://atlas.microsoft.com/.default",
            "https://atlas.microsoft.com/user_impersonation",
            "https://management.azure.com/.default">>

\* what the address string carries: none of the words, or a house number
Addresses == {{}, {"500"}}
\* response.status of an answer that is not ok
Statuses == {"400", "401", "403", "404", "429", "500", "501", "502", "503", "504"}
\* what response.statusText and the response body carry
Texts == {{}, {"timeout"}}
\* feature.geometry.coordinates of the first feature: [longitude, latitude]
Positions == {<<0, 0>>, <<1, 2>>}

\* what credential.getToken(scope) comes to: a token, a response without a
\* token, or an exception
TokenOutcomes == {"token", "empty", "throws"}
\* the credential asked for every scope
Credentials == [1..Len(Scopes) -> TokenOutcomes]
\* Math.random() * 1000 in ms: the least, a middle and the greatest value
Jitters == {0, JitterRange \div 2, JitterRange - 1}

NoAnswer == [kind |-> "none"]
TokenFailure == [kind |-> "tokenFailure"]
NetworkError == [kind |-> "networkError"]
NoFeatures == [kind |-> "noFeatures"]
\* response.json() or the reading of the first feature throws
InvalidBody == [kind |-> "invalidBody"]

\* what fetch and the parsing of its response can come to
Answers ==
    {NetworkError, NoFeatures, InvalidBody}
    \cup [kind : {"http"}, status : Statuses, text : Texts]
    \cup [kind : {"features"}, position : Positions]

NoCoordinates == [latitude |-> Undefined, longitude |-> Undefined]

\* no geocodeAddress call has been made
GeocodingIdle ==
    [pc |-> "idle", address |-> {}, attempt |-> 0, attempts |-> 0, tokens |-> 0,
     requests |-> 0, sleeps |-> 0, scope |-> "none", lastAnswer |-> NoAnswer,
     lastError |-> {}, coordinates |-> NoCoordinates, reacquired |-> 0,
     credential |-> << >>, tried |-> 0, delay |-> 0]

\* the attempt ended without a token, or with HTTP 401
AuthenticationFailure(answer) ==
    \/ answer.kind = "tokenFailure"
    \/ answer.kind = "http" /\ answer.status = "401"

\* the message of the Error an attempt throws:
\*   `Authentication failed: Failed to get access token with any scope`,
\*   `fetch failed` (the TypeError of fetch),
\*   `Azure Maps Geocoding API error: ${status} ${statusText} - ${errorText}`,
\*   `No geocoding results found for address: ${addressString}`
ErrorMessage(answer, address) ==
    IF answer.kind = "networkError" THEN {"fetch"}
    ELSE IF answer.kind = "http" THEN {answer.status} \cup answer.text
    ELSE IF answer.kind = "noFeatures" THEN address
    ELSE {}

isRetryableError(message) ==
    IF message \cap NetworkWords # {} THEN TRUE
    ELSE IF message \cap RetryStatusWords # {} THEN TRUE
    ELSE IF message \cap AuthWords # {} THEN TRUE
    ELSE IF message \cap ClientErrorWords # {} THEN FALSE
    ELSE FALSE

\* (a retryable error is always followed by a wait and another attempt)
Caught_NoLastAttempt(g, answer) ==
    LET message == ErrorMessage(answer, g.address)
        failed == [g EXCEPT !.lastAnswer = answer, !.lastError = message]
    IN IF ~isRetryableError(message) THEN [failed EXCEPT !.pc = "thrown"]
       ELSE [failed EXCEPT !.pc = "sleep"]

\* (the wait comes before the test for the last attempt)
Caught_WaitsFirst(g, answer) ==
    LET message == ErrorMessage(answer, g.address)
        failed == [g EXCEPT !.lastAnswer = answer, !.lastError = message]
    IN IF ~isRetryableError(message) THEN [failed EXCEPT !.pc = "thrown"]
       ELSE IF g.attempt = MaxRetries
       THEN [failed EXCEPT !.pc = "thrown", !.sleeps = @ + 1]
       ELSE [failed EXCEPT !.pc = "sleep"]

\* retryOperation's catch: the last attempt and an error that is not
\* retryable end the call, any other error is followed by a wait
Caught(g, answer) ==
    LET message == ErrorMessage(answer, g.address)
        failed == [g EXCEPT !.lastAnswer = answer, !.lastError = message]
    IN IF g.attempt = MaxRetries THEN [failed EXCEPT !.pc = "thrown"]
       ELSE IF ~isRetryableError(message) THEN [failed EXCEPT !.pc = "thrown"]
       ELSE [failed EXCEPT !.pc = "sleep"]

\* everything but the geocodeAddress call
service == <<therapistTable, clientTable, nextTherapistId, nextClientId,
             pc, call, request, existing, outcome, result, pre, lastPair,
             response, deleted, frontend>>

\* geocodeAddress(address): retryOperation starts with attempt = 0
GeocodeAddress(address) ==
    /\ geocoding.pc \in {"idle", "returned", "thrown"}
    /\ geocoding' = [GeocodingIdle EXCEPT !.pc = "getAccessToken", !.address = address]
    /\ UNCHANGED service

\* (the loop goes through every scope and keeps the last token)
TokenScope_Last(credential) ==
    IF \E i \in DOMAIN credential : credential[i] = "token"
    THEN CHOOSE i \in DOMAIN credential :
            /\ credential[i] = "token"
            /\ \A j \in DOMAIN credential : credential[j] = "token" => j <= i
    ELSE 0

\* for (const scope of scopes): the index of the scope whose getToken answer
\* is returned, the first with a token; 0 when the loop runs out
TokenScope(credential) ==
    IF \E i \in DOMAIN credential : credential[i] = "token"
    THEN CHOOSE i \in DOMAIN credential :
            /\ credential[i] = "token"
            /\ \A j \in DOMAIN credential : credential[j] = "token" => i <= j
    ELSE 0

\* operation() begins: getAccessToken asks the credential for its scopes in
\* order until one answers with a token; `credential` is what getToken answers
\* for each scope, `tried` the number of scopes asked
GetAccessToken(credential) ==
    /\ geocoding.pc = "getAccessToken"
    /\ LET i == TokenScope(credential)
           g == [geocoding EXCEPT !.attempts = @ + 1, !.tokens = @ + 1,
                     !.reacquired = IF AuthenticationFailure(geocoding.lastAnswer)
                                    THEN @ + 1 ELSE @,
                     !.credential = credential,
                     !.tried = IF i = 0 THEN Len(Scopes) ELSE i]
       IN geocoding' =
            IF i # 0
            THEN [g EXCEPT !.pc = "fetch", !.scope = Scopes[i]]
            ELSE Caught([g EXCEPT !.scope = "none"], TokenFailure)
    /\ UNCHANGED service

\* fetch(url, { Authorization: Bearer token }), then response.ok,
\* data.features and the coordinates of the first feature
Fetch(answer) ==
    /\ geocoding.pc = "fetch"
    /\ LET g == [geocoding EXCEPT !.requests = @ + 1]
       IN geocoding' =
            IF answer.kind = "features"
            THEN [g EXCEPT !.pc = "returned", !.lastAnswer = answer,
                           !.coordinates = [latitude |-> answer.position[2],
                                            longitude |-> answer.position[1]]]
            ELSE Caught(g, answer)
    /\ UNCHANGED service

\* (a delay that grows by the base delay with every attempt)
BackoffDelay_Linear(attempt, jitter) == BaseDelay * (attempt + 1) + jitter

\* const backoffDelay = delay * Math.pow(2, attempt) + Math.random() * 1000
BackoffDelay(attempt, jitter) == BaseDelay * 2^attempt + jitter

\* await new Promise(resolve => setTimeout(resolve, backoffDelay)); attempt++
Sleep(jitter) ==
    /\ geocoding.pc = "sleep"
    /\ geocoding' = [geocoding EXCEPT !.pc = "getAccessToken", !.sleeps = @ + 1,
                                      !.delay = BackoffDelay(geocoding.attempt, jitter),
                                      !.attempt = @ + 1]
    /\ UNCHANGED service

\* ------------------------------------- src/services/mapGeocodingService.ts
\* A string is the sequence of its characters.
\* String.prototype.toLowerCase, character by character
LowerCase(ch) ==
    CASE ch = "A" -> "a"
      [] ch = "M" -> "m"
      [] ch = "N" -> "n"
      [] ch = "W" -> "w"
      [] OTHER -> ch

toLowerCase(str) == [i \in 1..Len(str) |-> LowerCase(str[i])]

\* String.prototype.trim
RECURSIVE trim(_)
trim(str) ==
    IF str = << >> THEN << >>
    ELSE IF Head(str) = " " THEN trim(Tail(str))
    ELSE IF str[Len(str)] = " " THEN trim(SubSeq(str, 1, Len(str) - 1))
    ELSE str

\* Array.prototype.join
RECURSIVE join(_, _)
join(parts, separator) ==
    IF parts = << >> THEN << >>
    ELSE IF Len(parts) = 1 THEN parts[1]
    ELSE parts[1] \o separator \o join(Tail(parts), separator)

AddressFields == <<"street1", "street2", "city", "state", "zipCode">>

\* [street1, street2, city, state, zipCode].filter(part => part?.trim()): an
\* address without street2 has no such field
RECURSIVE PresentParts(_, _)
PresentParts(address, fields) ==
    IF fields = << >> THEN << >>
    ELSE IF Head(fields) \in DOMAIN address
              /\ trim(address[Head(fields)]) # << >>
    THEN <<address[Head(fields)]>> \o PresentParts(address, Tail(fields))
    ELSE PresentParts(address, Tail(fields))

formatAddressForGeocoding(address) ==
    join(PresentParts(address, AddressFields), <<",", " ">>)

\* (the cache keyed by the formatted address as it is)
CacheKey_CaseSensitive(address) == formatAddressForGeocoding(address)

\* const cacheKey = addressString.toLowerCase()
CacheKey(address) == toLowerCase(formatAddressForGeocoding(address))

\* the addresses geocoded: one in upper and in lower case, the same with a
\* blank second street line, and another one
MapAddresses ==
    {[street1 |-> <<"M">>, city |-> <<"A">>, state |-> <<"W">>, zipCode |-> <<"9">>],
     [street1 |-> <<"m">>, city |-> <<"a">>, state |-> <<"w">>, zipCode |-> <<"9">>],
     [street1 |-> <<"M">>, street2 |-> <<" ">>, city |-> <<"A">>, state |-> <<"W">>,
      zipCode |-> <<"9">>],
     [street1 |-> <<"N">>, city |-> <<"A">>, state |-> <<"W">>, zipCode |-> <<"9">>]}

\* data.latitude and data.longitude of an answer that is ok
MapLatitudes == {0, 47, 48}
MapLongitudes == {0, -122}

\* what fetch('/api/geocode') and the reading of its response come to: fetch
\* rejects, the response is not ok, its coordinates are not numbers, or it
\* carries a numeric latitude and longitude
BackendAnswers ==
    {[kind |-> "networkError"], [kind |-> "notOk"], [kind |-> "notNumbers"]}
    \cup [kind : {"ok"}, latitude : MapLatitudes, longitude : MapLongitudes]

MapCallers == 1..MaxMapCalls

\* no geocodeAddress call made by this caller
NoMapCall == [pc |-> "idle", address |-> << >>, coordinates |-> NoCoordinates,
              upstream |-> 0]

\* new Map<string, Coordinates>()
EmptyCache == [key \in {} |-> NoCoordinates]

\* cache: geocodeCache; calls: per caller its geocodeAddress call, with the
\* number of upstream requests it issued; served: per lower-cased formatted
\* address, the coordinates the latest successful call returned since the
\* last clearCache
FrontendIdle ==
    [cache |-> EmptyCache, calls |-> [q \in MapCallers |-> NoMapCall],
     served |-> EmptyCache]

\* Map.prototype.set
MapSet(map, key, value) ==
    [k \in DOMAIN map \cup {key} |-> IF k = key THEN value ELSE map[k]]

\* everything but the frontend service
backend == <<therapistTable, clientTable, nextTherapistId, nextClientId,
             pc, call, request, existing, outcome, result, pre, lastPair,
             response, deleted, geocoding>>

\* geocodeAddress(address) up to its first await: a cached address returns
\* at once, any other issues fetch('/api/geocode')
MapGeocodeAddress(q, address) ==
    /\ frontend.calls[q].pc # "fetch"
    /\ LET cacheKey == CacheKey(address)
       IN IF cacheKey \in DOMAIN frontend.cache
          THEN frontend' =
                 [frontend EXCEPT
                    !.calls[q] = [pc |-> "returned", address |-> address,
                                  coordinates |-> frontend.cache[cacheKey],
                                  upstream |-> 0],
                    !.served = MapSet(@, toLowerCase(formatAddressForGeocoding(address)),
                                      frontend.cache[cacheKey])]
          ELSE frontend' =
                 [frontend EXCEPT
                    !.calls[q] = [pc |-> "fetch", address |-> address,
                                  coordinates |-> NoCoordinates, upstream |-> 1]]
    /\ UNCHANGED backend

\* (a failed lookup cached as the no-coordinates value)
GeocodeWithBackendAPI_CachesFailure(q, answer) ==
    /\ frontend.calls[q].pc = "fetch"
    /\ LET address == frontend.calls[q].address
           coordinates == [latitude |-> answer.latitude, longitude |-> answer.longitude]
       IN IF /\ answer.kind = "ok"
             /\ ~(answer.latitude = 0 \/ answer.longitude = 0)
          THEN frontend' =
                 [frontend EXCEPT
                    !.cache = MapSet(@, CacheKey(address), coordinates),
                    !.calls[q].pc = "returned",
                    !.calls[q].coordinates = coordinates,
                    !.served = MapSet(@, toLowerCase(formatAddressForGeocoding(address)),
                                      coordinates)]
          ELSE frontend' = [frontend EXCEPT
                              !.cache = MapSet(@, CacheKey(address), NoCoordinates),
                              !.calls[q].pc = "thrown"]
    /\ UNCHANGED backend

\* geocodeWithBackendAPI settles: coordinates that pass its two tests are
\* cached under the key and returned, everything else is thrown on as a
\* GeocodingError that carries the address
GeocodeWithBackendAPI(q, answer) ==
    /\ frontend.calls[q].pc = "fetch"
    /\ LET address == frontend.calls[q].address
           coordinates == [latitude |-> answer.latitude, longitude |-> answer.longitude]
       IN IF /\ answer.kind = "ok"
             /\ ~(answer.latitude = 0 \/ answer.longitude = 0)
          THEN frontend' =
                 [frontend EXCEPT
                    !.cache = MapSet(@, CacheKey(address), coordinates),
                    !.calls[q].pc = "returned",
                    !.calls[q].coordinates = coordinates,
                    !.served = MapSet(@, toLowerCase(formatAddressForGeocoding(address)),
                                      coordinates)]
          ELSE frontend' = [frontend EXCEPT !.calls[q].pc = "thrown"]
    /\ UNCHANGED backend

\* clearCache(): this.geocodeCache.clear()
ClearCache ==
    /\ frontend' = [frontend EXCEPT !.cache = EmptyCache, !.served = EmptyCache]
    /\ UNCHANGED backend

\* ------------------------------------------------- functions/geocode.ts
\* POST /api/geocode.  A request body is no body at all, text that is not
\* JSON, JSON without an address, or JSON with an address that is an object
\* (with or without all of street1, city, state, zipCode) or a string (of
\* `parts` comma-separated parts, the last of which has the form
\* "state zipcode" or not).  `words` are the words looked for in error
\* messages that the address contains.
EndpointAddresses == {{}, {"401"}, {"429"}}

GeocodeBodies ==
    {[kind |-> "empty"], [kind |-> "invalidJson"], [kind |-> "noAddress"]}
    \cup [kind : {"object"}, complete : {FALSE}, words : {{}}]
    \cup [kind : {"object"}, complete : {TRUE}, words : EndpointAddresses]
    \cup {[kind |-> "string", parts |-> 2, stateZip |-> TRUE, words |-> {}],
          [kind |-> "string", parts |-> 3, stateZip |-> FALSE, words |-> {}]}
    \cup [kind : {"string"}, parts : {3}, stateZip : {TRUE}, words : EndpointAddresses]

\* the checks that answer 400: !body, JSON.parse, !address, parts.length < 3,
\* !stateZipMatch, and an object without one of its four fields
ValidBody(body) ==
    \/ body.kind = "object" /\ body.complete
    \/ body.kind = "string" /\ body.parts >= 3 /\ body.stateZip

\* the message of the Error geocodeAddress throws,
\*   `Failed to geocode address "${addressStr}": ${error.message}`,
\* as the set of the words the handler looks for that it contains
ThrownMessage(g) ==
    g.address
    \cup ErrorMessage(g.lastAnswer, g.address)
    \cup (IF g.lastAnswer.kind = "tokenFailure" THEN {"Authentication failed"}
          ELSE IF g.lastAnswer.kind = "noFeatures" THEN {"No geocoding results found"}
          ELSE {})

\* the status the catch of the handler answers with: errorMessage.includes(...)
ErrorStatus(message) ==
    IF "No geocoding results found" \in message THEN "404"
    ELSE IF "Authentication failed" \in message \/ "401" \in message THEN "503"
    ELSE IF "429" \in message \/ "rate limit" \in message THEN "429"
    ELSE "500"

\* geocode(request, context) up to its await of geocodeAddress: a body that
\* fails a check is answered 400
Geocode(p, body) ==
    LET c == [NoCall EXCEPT !.op = "geocode"]
    IN /\ CanStart(p)
       /\ IF ~ValidBody(body)
          THEN Respond(p, c, "ok", << >>, [status |-> "400"])
          ELSE Enter(p, c, "geocode_geocodeAddress", [address |-> body.words], Null)
       /\ UNCHANGED tables

\* const coordinates = await geocodingService.geocodeAddress(addressObj): the
\* call begins
GeocodeCallService(p) ==
    /\ pc[p] = "geocode_geocodeAddress"
    /\ geocoding.pc \in {"idle", "returned", "thrown"}
    /\ geocoding' = [GeocodingIdle EXCEPT !.pc = "getAccessToken",
                                          !.address = request[p].address]
    /\ pc' = [pc EXCEPT ![p] = "geocode_await"]
    /\ UNCHANGED <<tables, call, request, existing, outcome, result, pre, lastPair,
                   response, frontend>>

\* the call is over: 200 with the coordinates as jsonBody, or the status of
\* the catch
GeocodeRespond(p) ==
    /\ pc[p] = "geocode_await"
    /\ geocoding.pc \in {"returned", "thrown"}
    /\ IF geocoding.pc = "returned"
       THEN Respond(p, call[p], "ok", << >>,
                    [status |-> "200", jsonBody |-> geocoding.coordinates])
       ELSE Respond(p, call[p], "ok", << >>,
                    [status |-> ErrorStatus(ThrownMessage(geocoding))])
    /\ UNCHANGED tables

\* body: JSON.stringify({ address }) as geocodeWithBackendAPI sends it; the
\* addresses of the frontend contain none of the words
RequestBody(address) ==
    [kind |-> "object",
     complete |-> \A field \in {"street1", "city", "state", "zipCode"} :
                     field \in DOMAIN address /\ address[field] # << >>,
     words |-> {}]

\* what the fetch of geocodeWithBackendAPI comes to for a response of the
\* handler: response.ok and the latitude and longitude of its JSON body, or
\* a response that is not ok
EndpointAnswer(resp) ==
    IF resp.status = "200"
    THEN [kind |-> "ok", latitude |-> resp.jsonBody.latitude,
          longitude |-> resp.jsonBody.longitude]
    ELSE [kind |-> "notOk"]

\* the request of a frontend call that is waiting for its answer reaches the
\* handler
FetchGeocode(q, p) ==
    /\ frontend.calls[q].pc = "fetch"
    /\ Geocode(p, RequestBody(frontend.calls[q].address))

\* the frontend call gets the response the handler returned
GeocodeWithBackendAPIAnswered(q, p) ==
    /\ pc[p] = "done"
    /\ call[p].op = "geocode"
    /\ GeocodeWithBackendAPI(q, EndpointAnswer(response[p]))

Init ==
    /\ therapistTable = << >>
    /\ clientTable = << >>
    /\ nextTherapistId = 1
    /\ nextClientId = 1
    /\ pc = [p \in AllProcs |-> "idle"]
    /\ call = [p \in AllProcs |-> NoCall]
    /\ request = [p \in AllProcs |-> Null]
    /\ existing = [p \in AllProcs |-> Null]
    /\ outcome = [p \in AllProcs |-> "none"]
    /\ result = [p \in AllProcs |-> << >>]
    /\ pre = [p \in AllProcs |-> NoPre]
    /\ lastPair = [p \in AllProcs |-> NoPair]
    /\ response = [p \in AllProcs |-> NoResponse]
    /\ deleted = NoDeleted
    /\ geocoding = GeocodingIdle
    /\ frontend = FrontendIdle

\* ------------------------------------------------------------ createTherapist
\* geocodeAddress answers with coordinates or throws; on success the row is
\* written with isPaired false and no clientId.
GeocodingFailed == [failed |-> TRUE]

\* (a failed geocoding answered with a default location)
CreateTherapist_MockCoordinates(p, geo) ==
    LET c == [NoCall EXCEPT !.op = "createTherapist", !.therapistId = nextTherapistId]
        at == IF geo = GeocodingFailed THEN [latitude |-> 0, longitude |-> 0] ELSE geo
    IN /\ nextTherapistId <= MaxTherapists
       /\ therapistTable' = upsertEntity(therapistTable, nextTherapistId,
               [isPaired |-> FALSE, clientId |-> Undefined,
                latitude |-> at.latitude, longitude |-> at.longitude,
                dateCreated |-> CreationDate, dateModified |-> CreationDate])
       /\ nextTherapistId' = nextTherapistId + 1
       /\ OneStep(p, c, "ok")
       /\ UNCHANGED <<clientTable, nextClientId, deleted>>

CreateTherapist(p, geo) ==
    LET c == [NoCall EXCEPT !.op = "createTherapist", !.therapistId = nextTherapistId]
    IN /\ nextTherapistId <= MaxTherapists
       /\ IF geo = GeocodingFailed
          THEN /\ OneStep(p, c, "Failed to geocode address")
               /\ UNCHANGED tables
          ELSE /\ therapistTable' = upsertEntity(therapistTable, nextTherapistId,
                       [isPaired |-> FALSE, clientId |-> Undefined,
                        latitude |-> geo.latitude, longitude |-> geo.longitude,
                        dateCreated |-> CreationDate, dateModified |-> CreationDate])
               /\ nextTherapistId' = nextTherapistId + 1
               /\ OneStep(p, c, "ok")
               /\ UNCHANGED <<clientTable, nextClientId, deleted>>

\* --------------------------------------------------------------- createClient
CreateClient(p, geo) ==
    LET c == [NoCall EXCEPT !.op = "createClient", !.clientId = nextClientId]
    IN /\ nextClientId <= MaxClients
       /\ IF geo = GeocodingFailed
          THEN /\ OneStep(p, c, "Failed to geocode address")
               /\ UNCHANGED tables
          ELSE /\ clientTable' = upsertEntity(clientTable, nextClientId,
                       [status |-> "active", therapistId |-> Undefined,
                        latitude |-> geo.latitude, longitude |-> geo.longitude,
                        dateCreated |-> CreationDate, dateModified |-> CreationDate])
               /\ nextClientId' = nextClientId + 1
               /\ OneStep(p, c, "ok")
               /\ UNCHANGED <<therapistTable, nextTherapistId, deleted>>

\* ------------------------------------------ updateTherapist / updateClient
\* (a pairing that stops after the therapist write)
AfterUpdateTherapist_NoClientUpdate(p) == Finish(p, "ok")

\* what follows a completed updateTherapist in the caller: pairTherapistWithClient
\* goes on to updateClient, unpairTherapist is over, and deleteClient, whose
\* unpairTherapist is over, goes on to deleteEntity
AfterUpdateTherapist(p) ==
    IF call[p].op = "pairTherapistWithClient"
    THEN Continue(p, "updateClient_get",
             [id |-> call[p].clientId, therapistId |-> call[p].therapistId,
              status |-> "paired"], Null)
    ELSE IF call[p].op = "deleteClient"
    THEN Continue(p, "deleteClient_delete", Null, Null)
    ELSE Finish(p, "ok")

\* (an unpair that is over once the client is reset)
AfterUpdateClient_NoTherapistUpdate(p) == Finish(p, "ok")

\* (an unpair that writes the therapist back as paired)
AfterUpdateClient_LeavesPaired(p) ==
    IF call[p].op \in {"unpairTherapist", "deleteClient"}
    THEN Continue(p, "updateTherapist_get",
             [id |-> call[p].therapistId, isPaired |-> TRUE,
              clientId |-> Undefined], Null)
    ELSE Finish(p, "ok")

\* what follows a completed updateClient in the caller: unpairTherapist (called
\* directly or by deleteClient) goes on to updateTherapist,
\* pairTherapistWithClient is over
AfterUpdateClient(p) ==
    IF call[p].op \in {"unpairTherapist", "deleteClient"}
    THEN Continue(p, "updateTherapist_get",
             [id |-> call[p].therapistId, isPaired |-> FALSE,
              clientId |-> Undefined], Null)
    ELSE Finish(p, "ok")

\* const existing = await this.getTherapistById(request.id)
UpdateTherapistGet(p) ==
    /\ pc[p] = "updateTherapist_get"
    /\ LET e == getTherapistById(request[p].id)
       IN IF e = Null
          THEN Finish(p, "Therapist not found")
          ELSE Continue(p, "updateTherapist_upsert", request[p], e)
    /\ UNCHANGED tables

\* await this.tableService.upsertEntity(tableEntity)
UpdateTherapistUpsert(p) ==
    /\ pc[p] = "updateTherapist_upsert"
    /\ therapistTable' = upsertEntity(therapistTable, request[p].id,
                                      Updated(existing[p], request[p]))
    /\ AfterUpdateTherapist(p)
    /\ UNCHANGED <<clientTable, nextTherapistId, nextClientId, deleted>>

\* const existing = await this.getClientById(request.id)
UpdateClientGet(p) ==
    /\ pc[p] = "updateClient_get"
    /\ LET e == getClientById(request[p].id)
       IN IF e = Null
          THEN Finish(p, "Client not found")
          ELSE Continue(p, "updateClient_upsert", request[p], e)
    /\ UNCHANGED tables

\* await this.tableService.upsertEntity(tableEntity)
UpdateClientUpsert(p) ==
    /\ pc[p] = "updateClient_upsert"
    /\ clientTable' = upsertEntity(clientTable, request[p].id,
                                   Updated(existing[p], request[p]))
    /\ AfterUpdateClient(p)
    /\ UNCHANGED <<therapistTable, nextTherapistId, nextClientId, deleted>>

\* updateClient({ id, status }) called on the service: its getClientById
UpdateClientStatus(p, c, status) ==
    /\ Enter(p, [NoCall EXCEPT !.op = "updateClient", !.clientId = c],
             "updateClient_get", [id |-> c, status |-> status], Null)
    /\ UNCHANGED tables

\* ---------------------------------------------------- pairTherapistWithClient
\* const therapist = await this.getTherapistById(therapistId)
PairGetTherapist(p, t, c) ==
    /\ Enter(p, [NoCall EXCEPT !.op = "pairTherapistWithClient",
                               !.therapistId = t, !.clientId = c],
             "pair_getClient", Null, getTherapistById(t))
    /\ UNCHANGED tables

\* (the checks without the one on client.status)
PairGetClient_NoClientCheck(p) ==
    /\ pc[p] = "pair_getClient"
    /\ LET therapist == existing[p]
           client == getClientById(call[p].clientId)
       IN IF therapist = Null THEN Finish(p, "Therapist not found")
          ELSE IF client = Null THEN Finish(p, "Client not found")
          ELSE IF therapist.isPaired THEN Finish(p, "Therapist is already paired")
          ELSE Continue(p, "updateTherapist_get",
                   [id |-> call[p].therapistId, isPaired |-> TRUE,
                    clientId |-> call[p].clientId], Null)
    /\ UNCHANGED tables

\* const client = await this.getClientById(clientId), then the four checks
PairGetClient(p) ==
    /\ pc[p] = "pair_getClient"
    /\ LET therapist == existing[p]
           client == getClientById(call[p].clientId)
       IN IF therapist = Null THEN Finish(p, "Therapist not found")
          ELSE IF client = Null THEN Finish(p, "Client not found")
          ELSE IF therapist.isPaired THEN Finish(p, "Therapist is already paired")
          ELSE IF client.status = "paired" THEN Finish(p, "Client is already paired")
          ELSE Continue(p, "updateTherapist_get",
                   [id |-> call[p].therapistId, isPaired |-> TRUE,
                    clientId |-> call[p].clientId], Null)
    /\ UNCHANGED tables

\* ------------------------------------------------------------ unpairTherapist
\* (an unpair that clears the client's link and leaves its status alone)
UnpairGetTherapist_KeepsStatus(p, t) ==
    LET c == [NoCall EXCEPT !.op = "unpairTherapist", !.therapistId = t]
        therapist == getTherapistById(t)
    IN /\ IF therapist = Null THEN OneStep(p, c, "Therapist not found")
          ELSE IF therapist.clientId # Undefined
          THEN Enter(p, c, "updateClient_get",
                   [id |-> therapist.clientId, therapistId |-> Undefined], Null)
          ELSE Enter(p, c, "updateTherapist_get",
                   [id |-> t, isPaired |-> FALSE, clientId |-> Undefined], Null)
       /\ UNCHANGED tables

\* const therapist = await this.getTherapistById(therapistId), then the
\* branch on therapist.clientId
UnpairGetTherapist(p, t) ==
    LET c == [NoCall EXCEPT !.op = "unpairTherapist", !.therapistId = t]
        therapist == getTherapistById(t)
    IN /\ IF therapist = Null THEN OneStep(p, c, "Therapist not found")
          ELSE IF therapist.clientId # Undefined
          THEN Enter(p, c, "updateClient_get",
                   [id |-> therapist.clientId, therapistId |-> Undefined,
                    status |-> "active"], Null)
          ELSE Enter(p, c, "updateTherapist_get",
                   [id |-> t, isPaired |-> FALSE, clientId |-> Undefined], Null)
       /\ UNCHANGED tables

\* POST /api/pairing/unpair: a body without therapistId is answered 400;
\* otherwise `service.unpairTherapistFromClient(body.therapistId)` is called,
\* which OpenFielderService does not define: the call throws a TypeError
\* before any store operation, and the catch answers 500.
HandleUnpairTherapist(p, t) ==
    LET c == [NoCall EXCEPT !.op = "handleUnpairTherapist", !.therapistId = t]
    IN /\ CanStart(p)
       /\ IF t = Undefined
          THEN Respond(p, c, "ok", << >>, [status |-> "400"])
          ELSE Respond(p, c, "service.unpairTherapistFromClient is not a function",
                       << >>, [status |-> "500"])
       /\ UNCHANGED tables

\* ------------------------------------------------------------ deleteTherapist
\* await this.tableService.deleteEntity('THERAPIST', id)
DeleteTherapist(p, t) ==
    /\ therapistTable' = deleteEntity(therapistTable, t)
    /\ deleted' = [deleted EXCEPT !.therapists =
                       IF t \in DOMAIN therapistTable THEN @ \cup {t} ELSE @]
    /\ OneStep(p, [NoCall EXCEPT !.op = "deleteTherapist", !.therapistId = t], "ok")
    /\ UNCHANGED <<clientTable, nextTherapistId, nextClientId>>

\* --------------------------------------------------------------- deleteClient
\* const client = await this.getClientById(id); a client that names a
\* therapist is unpaired first.  call.therapistId holds the argument of that
\* unpairTherapist call.
DeleteClientGet(p, c) ==
    LET client == getClientById(c)
        cl == [NoCall EXCEPT !.op = "deleteClient", !.clientId = c]
    IN /\ IF client # Null /\ client.therapistId # Undefined
          THEN Enter(p, [cl EXCEPT !.therapistId = client.therapistId],
                     "deleteClient_unpair", Null, Null)
          ELSE Enter(p, cl, "deleteClient_delete", Null, Null)
       /\ UNCHANGED tables

\* await this.unpairTherapist(client.therapistId): its getTherapistById and
\* the branch on therapist.clientId
DeleteClientUnpair(p) ==
    /\ pc[p] = "deleteClient_unpair"
    /\ LET t == call[p].therapistId
           therapist == getTherapistById(t)
       IN IF therapist = Null THEN Finish(p, "Therapist not found")
          ELSE IF therapist.clientId # Undefined
          THEN Continue(p, "updateClient_get",
                   [id |-> therapist.clientId, therapistId |-> Undefined,
                    status |-> "active"], Null)
          ELSE Continue(p, "updateTherapist_get",
                   [id |-> t, isPaired |-> FALSE, clientId |-> Undefined], Null)
    /\ UNCHANGED tables

\* await this.tableService.deleteEntity('CLIENT', id)
DeleteClientDelete(p) ==
    /\ pc[p] = "deleteClient_delete"
    /\ clientTable' = deleteEntity(clientTable, call[p].clientId)
    /\ deleted' = [deleted EXCEPT !.clients =
                       IF call[p].clientId \in DOMAIN clientTable
                       THEN @ \cup {call[p].clientId} ELSE @]
    /\ Finish(p, "ok")
    /\ UNCHANGED <<therapistTable, nextTherapistId, nextClientId>>

\* ------------------------------------------------------ findNearestTherapists
\* distances.sort((a, b) => a.distance - b.distance): stable, ascending
RECURSIVE Insert(_, _)
\* (an entry goes before the entries at its own distance)
Insert_BeforeEqual(x, sorted) ==
    IF sorted = << >> THEN <<x>>
    ELSE IF x.distance <= Head(sorted).distance THEN <<x>> \o sorted
    ELSE <<Head(sorted)>> \o Insert(x, Tail(sorted))

Insert(x, sorted) ==
    IF sorted = << >> THEN <<x>>
    ELSE IF x.distance < Head(sorted).distance THEN <<x>> \o sorted
    ELSE <<Head(sorted)>> \o Insert(x, Tail(sorted))

\* (the list left in table order)
SortByDistance_Unsorted(s) == s

RECURSIVE SortByDistance(_)
SortByDistance(s) ==
    IF s = << >> THEN << >>
    ELSE Insert(s[Len(s)], SortByDistance(SubSeq(s, 1, Len(s) - 1)))

\* Array.prototype.slice(0, end): a negative end counts from the end
Slice0(s, end) ==
    LET e == IF end < 0 THEN (IF Len(s) + end < 0 THEN 0 ELSE Len(s) + end)
             ELSE (IF end > Len(s) THEN Len(s) ELSE end)
    IN SubSeq(s, 1, e)

\* (no filter at all)
FilterAvailable_All(s) == s

\* therapists.filter(t => !t.isPaired)
RECURSIVE FilterAvailable(_)
FilterAvailable(s) ==
    IF s = << >> THEN << >>
    ELSE IF ~Head(s).isPaired THEN <<Head(s)>> \o FilterAvailable(Tail(s))
    ELSE FilterAvailable(Tail(s))

\* filter, map to DistanceCalculation, sort, slice
NearestTherapists(clientId, client, therapists, maxResults) ==
    LET availableTherapists == FilterAvailable(therapists)
        distances == [i \in 1..Len(availableTherapists) |->
            [therapistId |-> availableTherapists[i].id,
             clientId |-> clientId,
             distance |-> calculateDistance(client.latitude, client.longitude,
                                            availableTherapists[i].latitude,
                                            availableTherapists[i].longitude)]]
    IN Slice0(SortByDistance(distances), maxResults)

\* (a missing client answered with an empty list)
FindGetClient_EmptyOnMissing(p, c, maxResults) ==
    LET cl == [NoCall EXCEPT !.op = "findNearestTherapists", !.clientId = c,
                             !.maxResults = maxResults]
        client == getClientById(c)
    IN /\ IF client = Null THEN OneStep(p, cl, "ok")
          ELSE Enter(p, cl, "find_getAllTherapists", Null, client)
       /\ UNCHANGED tables

\* const client = await this.getClientById(clientId)
FindGetClient(p, c, maxResults) ==
    LET cl == [NoCall EXCEPT !.op = "findNearestTherapists", !.clientId = c,
                             !.maxResults = maxResults]
        client == getClientById(c)
    IN /\ IF client = Null THEN OneStep(p, cl, "Client not found")
          ELSE Enter(p, cl, "find_getAllTherapists", Null, client)
       /\ UNCHANGED tables

\* const therapists = await this.getAllTherapists(), then filter, map, sort, slice
FindGetAllTherapists(p) ==
    /\ pc[p] = "find_getAllTherapists"
    /\ Return(p, call[p], "ok",
              NearestTherapists(call[p].clientId, existing[p], getAllTherapists,
                                call[p].maxResults))
    /\ UNCHANGED tables

\* ------------------------------------------- handleGetNearestTherapists
\* url.searchParams.get('limit'): null when the URL has no such parameter,
\* otherwise its text. The ?limit= parameters tried: none, an empty one, 0,
\* positive, negative, not a number, and a number followed by something else
LimitParams ==
    {[present |-> FALSE, value |-> << >>]}
    \cup {[present |-> TRUE, value |-> v] :
             v \in {<< >>, <<"0">>, <<"1">>, <<"2">>, <<"1", "0">>, <<"-", "1">>,
                    <<"-", "2">>, <<"a">>, <<"2", "a">>}}

Digits == <<"0", "1", "2", "3", "4", "5", "6", "7", "8", "9">>

\* the digits a string begins with
RECURSIVE DigitPrefix(_)
DigitPrefix(str) ==
    IF str = << >> \/ ~(\E i \in DOMAIN Digits : Digits[i] = Head(str)) THEN << >>
    ELSE <<Head(str)>> \o DigitPrefix(Tail(str))

\* the number a string of decimal digits denotes
RECURSIVE DigitsValue(_)
DigitsValue(digits) ==
    IF digits = << >> THEN 0
    ELSE 10 * DigitsValue(SubSeq(digits, 1, Len(digits) - 1))
         + (CHOOSE i \in DOMAIN Digits : Digits[i] = digits[Len(digits)]) - 1

NaN == [nan |-> TRUE, value |-> 0]

\* parseInt(string): white space and a sign, then the longest run of digits;
\* NaN when there is no digit
parseInt(str) ==
    LET s == trim(str)
        signed == s # << >> /\ Head(s) \in {"-", "+"}
        digits == DigitPrefix(IF signed THEN Tail(s) ELSE s)
    IN IF digits = << >> THEN NaN
       ELSE [nan |-> FALSE,
             value |-> IF signed /\ Head(s) = "-" THEN 0 - DigitsValue(digits)
                       ELSE DigitsValue(digits)]

\* the end Array.prototype.slice works with: NaN becomes 0
ToIntegerOrInfinity(number) == IF number.nan THEN 0 ELSE number.value

\* handleGetNearestTherapists(service, clientId, request) up to the first
\* store operation of findNearestTherapists: no clientId is answered 400, a
\* client that is not found is the Error the catch answers 500 for. In
\* url.searchParams.get('limit') || '10', null and '' are falsy
HandleGetNearestTherapists(p, c, limit) ==
    LET text == IF ~limit.present \/ limit.value = << >> THEN <<"1", "0">>
                ELSE limit.value
        maxResults == parseInt(text)
        cl == [op |-> "handleGetNearestTherapists", therapistId |-> Undefined,
               clientId |-> c, maxResults |-> ToIntegerOrInfinity(maxResults),
               limit |-> limit]
        client == getClientById(c)
    IN /\ CanStart(p)
       /\ IF c = Undefined THEN Respond(p, cl, "ok", << >>, [status |-> "400"])
          ELSE IF client = Null
          THEN Respond(p, cl, "Client not found", << >>, [status |-> "500"])
          ELSE Enter(p, cl, "handle_find_getAllTherapists", Null, client)
       /\ UNCHANGED tables

\* const therapists = await this.getAllTherapists(), then filter, map, sort,
\* slice, and the handler's 200 with the list
HandleFindGetAllTherapists(p) ==
    /\ pc[p] = "handle_find_getAllTherapists"
    /\ Respond(p, call[p], "ok",
               NearestTherapists(call[p].clientId, existing[p], getAllTherapists,
                                 call[p].maxResults),
               [status |-> "200"])
    /\ UNCHANGED tables

\* ---------------------------------------------------------- calculateDistance
\* calculateDistance(from.latitude, from.longitude, to.latitude, to.longitude)
\* on the two points request[p] holds
CalculateDistance(p) ==
    /\ pc[p] = "idle"
    /\ request[p] # Null
    /\ LET from == request[p].from
           to == request[p].to
       IN Return(p, [NoCall EXCEPT !.op = "calculateDistance"], "ok",
                 <<[from |-> from, to |-> to,
                    distance |-> calculateDistance(from.latitude, from.longitude,
                                                   to.latitude, to.longitude)]>>)
    /\ UNCHANGED tables

\* --------------------------------------------------------------- store faults
\* tableClient.getEntity / listEntities / upsertEntity reject for a reason other
\* than 404: tableStorage.ts rethrows as `Failed to get entity: ...`,
\* `Failed to list entities: ...`, `Failed to upsert entity: ...`, and no
\* method of the service catches it.

\* the getEntity of a call's first store operation throws
FirstGetEntityFails(p, c) ==
    /\ OneStep(p, c, "Failed to get entity")
    /\ UNCHANGED tables

\* (a getEntity that throws is taken for a missing row)
GetEntityFails_AsAbsent(p) ==
    /\ pc[p] \in {"pair_getClient", "updateTherapist_get", "updateClient_get"}
    /\ Finish(p, IF pc[p] = "updateTherapist_get" THEN "Therapist not found"
                 ELSE "Client not found")
    /\ UNCHANGED tables

\* the getEntity of a later store operation throws
GetEntityFails(p) ==
    /\ pc[p] \in {"pair_getClient", "updateTherapist_get", "updateClient_get"}
    /\ Finish(p, "Failed to get entity")
    /\ UNCHANGED tables

\* the listEntities of getAllTherapists throws
ListEntitiesFails(p) ==
    /\ pc[p] = "find_getAllTherapists"
    /\ Finish(p, "Failed to list entities")
    /\ UNCHANGED tables

\* the upsertEntity of updateTherapist / updateClient throws: nothing is written
UpsertEntityFails(p) ==
    /\ pc[p] \in {"updateTherapist_upsert", "updateClient_upsert"}
    /\ Finish(p, "Failed to upsert entity")
    /\ UNCHANGED tables

\* ------------------------------------------------------------- specifications
Step(p) ==
    \/ \E geo \in Coordinates \cup {GeocodingFailed} : CreateTherapist(p, geo)
    \/ \E geo \in Coordinates \cup {GeocodingFailed} : CreateClient(p, geo)
    \/ \E t \in ArgTherapistIds, c \in ArgClientIds : PairGetTherapist(p, t, c)
    \/ PairGetClient(p)
    \/ \E t \in ArgTherapistIds : UnpairGetTherapist(p, t)
    \/ \E t \in ArgTherapistIds \cup {Undefined} : HandleUnpairTherapist(p, t)
    \/ \E t \in ArgTherapistIds : DeleteTherapist(p, t)
    \/ \E c \in ArgClientIds : DeleteClientGet(p, c)
    \/ DeleteClientUnpair(p)
    \/ DeleteClientDelete(p)
    \/ UpdateTherapistGet(p)
    \/ UpdateTherapistUpsert(p)
    \/ UpdateClientGet(p)
    \/ UpdateClientUpsert(p)
    \/ \E c \in ArgClientIds, m \in LimitInputs : FindGetClient(p, c, m)
    \/ FindGetAllTherapists(p)

\* requests of different callers interleave between their store operations
Next == \E p \in Procs : Step(p)

Spec == Init /\ [][Next]_vars

\* one caller: every call is over before the next one begins
NextSeq == Step(Caller)

SeqSpec == Init /\ [][NextSeq]_vars

\* the calls of the pairing operations
PairingCalls ==
    {[NoCall EXCEPT !.op = "pairTherapistWithClient", !.therapistId = t, !.clientId = c] :
        t \in ArgTherapistIds, c \in ArgClientIds}
    \cup {[NoCall EXCEPT !.op = "unpairTherapist", !.therapistId = t] : t \in ArgTherapistIds}
    \cup {[NoCall EXCEPT !.op = "findNearestTherapists", !.clientId = c,
                         !.maxResults = DefaultMaxResults] : c \in ArgClientIds}

\* one caller creates, pairs, unpairs and looks up, against a store any of
\* whose operations may fail
NextFault ==
    \/ \E geo \in Coordinates : CreateTherapist(Caller, geo)
    \/ \E geo \in Coordinates : CreateClient(Caller, geo)
    \/ \E t \in ArgTherapistIds, c \in ArgClientIds : PairGetTherapist(Caller, t, c)
    \/ PairGetClient(Caller)
    \/ \E t \in ArgTherapistIds : UnpairGetTherapist(Caller, t)
    \/ UpdateTherapistGet(Caller)
    \/ UpdateTherapistUpsert(Caller)
    \/ UpdateClientGet(Caller)
    \/ UpdateClientUpsert(Caller)
    \/ \E c \in ArgClientIds : FindGetClient(Caller, c, DefaultMaxResults)
    \/ FindGetAllTherapists(Caller)
    \/ \E c \in PairingCalls : FirstGetEntityFails(Caller, c)
    \/ GetEntityFails(Caller)
    \/ ListEntitiesFails(Caller)
    \/ UpsertEntityFails(Caller)

FaultSpec == Init /\ [][NextFault]_vars

\* a populated table: up to MaxListed therapists, each paired with client 1 or
\* unpaired, and client 1, paired if one of them is
ListedTherapists ==
    [isPaired : {FALSE}, clientId : {Undefined}, latitude : Latitudes, longitude : {0},
     dateCreated : {CreationDate}, dateModified : {CreationDate}]
    \cup [isPaired : {TRUE}, clientId : {1}, latitude : Latitudes, longitude : {0},
          dateCreated : {CreationDate}, dateModified : {NewDate}]

InitFind ==
    /\ \E n \in 0..MaxListed : therapistTable \in [1..n -> ListedTherapists]
    /\ \E lat \in Latitudes :
          clientTable = <<[status |-> IF \E t \in DOMAIN therapistTable :
                                          therapistTable[t].isPaired
                                     THEN "paired" ELSE "active",
                           therapistId |-> IF \E t \in DOMAIN therapistTable :
                                                therapistTable[t].isPaired
                                           THEN CHOOSE t \in DOMAIN therapistTable :
                                                    therapistTable[t].isPaired
                                           ELSE Undefined,
                           latitude |-> lat, longitude |-> 0,
                           dateCreated |-> CreationDate,
                           dateModified |-> IF \E t \in DOMAIN therapistTable :
                                                 therapistTable[t].isPaired
                                            THEN NewDate ELSE CreationDate]>>
    /\ nextTherapistId = Len(therapistTable) + 1
    /\ nextClientId = 2
    /\ pc = [p \in AllProcs |-> "idle"]
    /\ call = [p \in AllProcs |-> NoCall]
    /\ request = [p \in AllProcs |-> Null]
    /\ existing = [p \in AllProcs |-> Null]
    /\ outcome = [p \in AllProcs |-> "none"]
    /\ result = [p \in AllProcs |-> << >>]
    /\ pre = [p \in AllProcs |-> NoPre]
    /\ lastPair = [p \in AllProcs |-> NoPair]
    /\ response = [p \in AllProcs |-> NoResponse]
    /\ deleted = NoDeleted
    /\ geocoding = GeocodingIdle
    /\ frontend = FrontendIdle

\* the caller looks up the nearest therapists, one call after the other
NextFind ==
    \/ \E c \in ArgClientIds, m \in LimitInputs : FindGetClient(Caller, c, m)
    \/ FindGetAllTherapists(Caller)

FindSpec == InitFind /\ [][NextFind]_vars

\* GET /api/pairing/nearest/{clientId}?limit=..., one request after the other
NextLimit ==
    \/ \E c \in ArgClientIds \cup {Undefined}, limit \in LimitParams :
          HandleGetNearestTherapists(Caller, c, limit)
    \/ HandleFindGetAllTherapists(Caller)

LimitSpec == InitFind /\ [][NextLimit]_vars

\* one geocodeAddress call after the other, against every upstream
NextGeo ==
    \/ \E address \in Addresses : GeocodeAddress(address)
    \/ \E credential \in Credentials : GetAccessToken(credential)
    \/ \E answer \in Answers : Fetch(answer)
    \/ \E jitter \in Jitters : Sleep(jitter)

GeoSpec == Init /\ [][NextGeo]_vars

\* what `await this.geocodingService.geocodeAddress(request.address)` comes to
\* in createTherapist / createClient once the geocodeAddress call is over
Geocoded ==
    IF geocoding.pc = "returned" THEN geocoding.coordinates ELSE GeocodingFailed

\* createTherapist / createClient after the geocodeAddress call they await
CreateTherapistGeocoded(p) ==
    /\ geocoding.pc \in {"returned", "thrown"}
    /\ CreateTherapist(p, Geocoded)

CreateClientGeocoded(p) ==
    /\ geocoding.pc \in {"returned", "thrown"}
    /\ CreateClient(p, Geocoded)

\* the upstreams the creations are run against: a credential that yields a
\* token or none, and a network error, HTTP 400, no features or features
CreateCredentials == {[i \in 1..Len(Scopes) |-> "token"],
                      [i \in 1..Len(Scopes) |-> "throws"]}
CreateAnswers ==
    {NetworkError, NoFeatures, [kind |-> "http", status |-> "400", text |-> {}]}
    \cup [kind : {"features"}, position : Positions]

\* the caller creates therapists and clients, each creation geocoding its
\* address first
NextCreate ==
    \/ GeocodeAddress({})
    \/ \E credential \in CreateCredentials : GetAccessToken(credential)
    \/ \E answer \in CreateAnswers : Fetch(answer)
    \/ Sleep(0)
    \/ CreateTherapistGeocoded(Caller)
    \/ CreateClientGeocoded(Caller)

CreateSpec == Init /\ [][NextCreate]_vars

\* the valid coordinates on the grid: latitudes -90..90, longitudes -180..180
Points ==
    [latitude : {2 * HalfStep * i : i \in -3..3},
     longitude : {2 * HalfStep * i : i \in -6..6}]

\* the caller holds any two points
InitDistance ==
    /\ therapistTable = << >>
    /\ clientTable = << >>
    /\ nextTherapistId = 1
    /\ nextClientId = 1
    /\ pc = [p \in AllProcs |-> "idle"]
    /\ call = [p \in AllProcs |-> NoCall]
    /\ \E from \in Points, to \in Points :
          request = [p \in AllProcs |->
                        IF p = Caller THEN [from |-> from, to |-> to] ELSE Null]
    /\ existing = [p \in AllProcs |-> Null]
    /\ outcome = [p \in AllProcs |-> "none"]
    /\ result = [p \in AllProcs |-> << >>]
    /\ pre = [p \in AllProcs |-> NoPre]
    /\ lastPair = [p \in AllProcs |-> NoPair]
    /\ response = [p \in AllProcs |-> NoResponse]
    /\ deleted = NoDeleted
    /\ geocoding = GeocodingIdle
    /\ frontend = FrontendIdle

\* and computes the distance between them
NextDistance == CalculateDistance(Caller)

DistanceSpec == InitDistance /\ [][NextDistance]_vars

\* the frontend service in one browser session: calls that may overlap, and
\* clearCache
NextMap ==
    \/ \E q \in MapCallers, address \in MapAddresses : MapGeocodeAddress(q, address)
    \/ \E q \in MapCallers, answer \in BackendAnswers : GeocodeWithBackendAPI(q, answer)
    \/ ClearCache

MapSpec == Init /\ [][NextMap]_vars

\* a populated store: the therapists and clients createTherapist and
\* createClient have made, none of them paired yet
Stored(therapists, clients) ==
    /\ therapistTable = [t \in 1..therapists |->
          [isPaired |-> FALSE, clientId |-> Undefined, latitude |-> 0, longitude |-> 0,
           dateCreated |-> CreationDate, dateModified |-> CreationDate]]
    /\ clientTable = [c \in 1..clients |->
          [status |-> "active", therapistId |-> Undefined, latitude |-> 0, longitude |-> 0,
           dateCreated |-> CreationDate, dateModified |-> CreationDate]]
    /\ nextTherapistId = therapists + 1
    /\ nextClientId = clients + 1
    /\ pc = [p \in AllProcs |-> "idle"]
    /\ call = [p \in AllProcs |-> NoCall]
    /\ request = [p \in AllProcs |-> Null]
    /\ existing = [p \in AllProcs |-> Null]
    /\ outcome = [p \in AllProcs |-> "none"]
    /\ result = [p \in AllProcs |-> << >>]
    /\ pre = [p \in AllProcs |-> NoPre]
    /\ lastPair = [p \in AllProcs |-> NoPair]
    /\ response = [p \in AllProcs |-> NoResponse]
    /\ deleted = NoDeleted
    /\ geocoding = GeocodingIdle
    /\ frontend = FrontendIdle

\* the store DeleteSpec starts from
InitStored == Stored(MaxTherapists, MaxStoredClients)

\* the caller pairs and unpairs therapists 1..therapists and clients
\* 1..clients
PairSteps(therapists, clients) ==
    \/ \E t \in 1..therapists, c \in 1..clients : PairGetTherapist(Caller, t, c)
    \/ PairGetClient(Caller)
    \/ \E t \in 1..therapists : UnpairGetTherapist(Caller, t)
    \/ UpdateTherapistGet(Caller)
    \/ UpdateTherapistUpsert(Caller)
    \/ UpdateClientGet(Caller)
    \/ UpdateClientUpsert(Caller)

\* and deletes clients
NextDelete ==
    \/ PairSteps(MaxTherapists, MaxStoredClients)
    \/ \E c \in 1..MaxStoredClients : DeleteClientGet(Caller, c)
    \/ DeleteClientUnpair(Caller)
    \/ DeleteClientDelete(Caller)

DeleteSpec == InitStored /\ [][NextDelete]_vars

\* POST /api/geocode requests, one after the other, with every body and
\* against every upstream
NextEndpoint ==
    \/ \E body \in GeocodeBodies : Geocode(Caller, body)
    \/ GeocodeCallService(Caller)
    \/ \E credential \in CreateCredentials : GetAccessToken(credential)
    \/ \E answer \in Answers : Fetch(answer)
    \/ Sleep(0)
    \/ GeocodeRespond(Caller)

EndpointSpec == Init /\ [][NextEndpoint]_vars

\* the frontend service geocodes through POST /api/geocode, whose credential
\* yields a token and whose upstream answers no features, or features
NextProxy ==
    \/ \E q \in MapCallers, address \in MapAddresses : MapGeocodeAddress(q, address)
    \/ \E q \in MapCallers : FetchGeocode(q, Caller)
    \/ GeocodeCallService(Caller)
    \/ GetAccessToken([i \in 1..Len(Scopes) |-> "token"])
    \/ \E answer \in {NoFeatures} \cup [kind : {"features"}, position : Positions] :
          Fetch(answer)
    \/ GeocodeRespond(Caller)
    \/ \E q \in MapCallers : GeocodeWithBackendAPIAnswered(q, Caller)

ProxySpec == Init /\ [][NextProxy]_vars

\* the caller sets clients active or inactive, pairs and unpairs
NextStatus ==
    \/ PairSteps(MaxClients, MaxClients)
    \/ \E c \in 1..MaxClients, status \in {"active", "inactive"} :
          UpdateClientStatus(Caller, c, status)

\* the store StatusSpec starts from: a therapist for every client
InitStatus == Stored(MaxClients, MaxClients)

StatusSpec == InitStatus /\ [][NextStatus]_vars

\* a call that has begun goes on: every awaited promise (getToken, fetch,
\* setTimeout) settles
GeoCallStep ==
    \/ \E credential \in Credentials : GetAccessToken(credential)
    \/ \E answer \in Answers : Fetch(answer)
    \/ \E jitter \in Jitters : Sleep(jitter)

GeoFairSpec == GeoSpec /\ WF_vars(GeoCallStep)

\* ------------------------------------------------------------------ properties
PairOp == "pairTherapistWithClient"
UnpairOp == "unpairTherapist"
FindOp == "findNearestTherapists"

\* the Caller has no call in flight
Quiescent == CanStart(Caller)

\* the tables as they were when the Caller's current call began; for a step
\* that begins a call, the tables of the state the step leaves
Before == IF CanStart(Caller) THEN Snapshot ELSE pre[Caller]

\* this step ends a call of the Caller (the call is call'[Caller])
Returns(op) == pc'[Caller] = "done" /\ call'[Caller].op = op

NotFoundErrors == {"Therapist not found", "Client not found"}
ConflictErrors == {"Therapist is already paired", "Client is already paired"}

\* the link field is not set
Unset(v) == v = Undefined

\* C1: in every reachable state, also under interleaved pairTherapistWithClient
\* requests, no two distinct clients with status 'paired' have the same
\* therapistId and no two distinct therapists with isPaired = true have the
\* same clientId.
C1_OneToOnePairing ==
    /\ \A c1, c2 \in DOMAIN clientTable :
          (c1 # c2 /\ clientTable[c1].status = "paired" /\ clientTable[c2].status = "paired")
             => clientTable[c1].therapistId # clientTable[c2].therapistId
    /\ \A t1, t2 \in DOMAIN therapistTable :
          (t1 # t2 /\ therapistTable[t1].isPaired /\ therapistTable[t2].isPaired)
             => therapistTable[t1].clientId # therapistTable[t2].clientId

\* therapist t and client c are stored as paired with each other
StoredAsPaired(therapists, clients, t, c) ==
    /\ t \in DOMAIN therapists /\ c \in DOMAIN clients
    /\ therapists[t].isPaired = TRUE /\ therapists[t].clientId = c
    /\ clients[c].status = "paired" /\ clients[c].therapistId = t

\* t exists and is not paired, c exists and its status is not 'paired'
Pairable(therapists, clients, t, c) ==
    /\ t \in DOMAIN therapists /\ c \in DOMAIN clients
    /\ ~therapists[t].isPaired
    /\ clients[c].status # "paired"

\* C2: a pairTherapistWithClient(t, c) call that begins with t existing and
\* unpaired and c existing and not 'paired', and runs without interleaving,
\* returns normally and leaves t.isPaired = true, t.clientId = c,
\* c.status = 'paired', c.therapistId = t in the store.
C2_PairWritesBothSides ==
    [][(Returns(PairOp)
        /\ Pairable(Before.therapists, Before.clients,
                    call'[Caller].therapistId, call'[Caller].clientId))
       => /\ outcome'[Caller] = "ok"
          /\ StoredAsPaired(therapistTable', clientTable',
                            call'[Caller].therapistId, call'[Caller].clientId)]_vars

C2_Witness ==
    /\ pc[Caller] = "done" /\ call[Caller].op = PairOp /\ outcome[Caller] = "ok"
    /\ lastPair[Caller].call = call[Caller]
    /\ Pairable(lastPair[Caller].pre.therapists, lastPair[Caller].pre.clients,
                call[Caller].therapistId, call[Caller].clientId)
    /\ StoredAsPaired(therapistTable, clientTable,
                      call[Caller].therapistId, call[Caller].clientId)

\* C3: pairTherapistWithClient(t, c) on an existing t and an existing c fails
\* with a conflict error whenever t is already paired or c already has status
\* 'paired', and then every therapist and client record is as it was before
\* the call.
C3_ConflictRejected ==
    [][(/\ Returns(PairOp)
        /\ call'[Caller].therapistId \in DOMAIN Before.therapists
        /\ call'[Caller].clientId \in DOMAIN Before.clients
        /\ \/ Before.therapists[call'[Caller].therapistId].isPaired
           \/ Before.clients[call'[Caller].clientId].status = "paired")
       => /\ outcome'[Caller] \in ConflictErrors
          /\ therapistTable' = Before.therapists
          /\ clientTable' = Before.clients]_vars

\* a pair call on an unpaired therapist was rejected because the client is paired
C3_Witness ==
    /\ pc[Caller] = "done" /\ call[Caller].op = PairOp
    /\ outcome[Caller] = "Client is already paired"
    /\ ~therapistTable[call[Caller].therapistId].isPaired
    /\ clientTable[call[Caller].clientId].status = "paired"

\* C4: findNearestTherapists(clientId), pairTherapistWithClient(therapistId,
\* clientId) and unpairTherapist(therapistId) fail with a not-found error when
\* an id they are given does not resolve, whatever the state of the other
\* record, and then the tables are as they were before the call.
C4_NotFoundRejected ==
    [][(\/ /\ Returns(FindOp)
           /\ call'[Caller].clientId \notin DOMAIN Before.clients
        \/ /\ Returns(PairOp)
           /\ \/ call'[Caller].therapistId \notin DOMAIN Before.therapists
              \/ call'[Caller].clientId \notin DOMAIN Before.clients
        \/ /\ Returns(UnpairOp)
           /\ call'[Caller].therapistId \notin DOMAIN Before.therapists)
       => /\ outcome'[Caller] \in NotFoundErrors
          /\ therapistTable' = Before.therapists
          /\ clientTable' = Before.clients]_vars

\* a pair call naming a paired therapist and a client that does not resolve
C4_Witness ==
    /\ pc[Caller] = "done" /\ call[Caller].op = PairOp
    /\ outcome[Caller] = "Client not found"
    /\ call[Caller].therapistId \in DOMAIN therapistTable
    /\ therapistTable[call[Caller].therapistId].isPaired
    /\ call[Caller].clientId \notin DOMAIN clientTable

\* t is unpaired and c is active, and neither has its link field set
Fresh(therapists, clients, t, c) ==
    /\ t \in DOMAIN therapists /\ c \in DOMAIN clients
    /\ ~therapists[t].isPaired /\ Unset(therapists[t].clientId)
    /\ clients[c].status = "active" /\ Unset(clients[c].therapistId)

\* C5: for an unpaired therapist t and an active client c with no link fields
\* set, pairTherapistWithClient(t, c) followed by unpairTherapist(t) leaves
\* t.isPaired = false, c.status = 'active' and t.clientId and c.therapistId
\* unset.
C5_RoundTripRestores ==
    [][(/\ Returns(UnpairOp)
        /\ outcome'[Caller] = "ok"
        /\ lastPair[Caller].call.op = PairOp
        /\ lastPair[Caller].call.therapistId = call'[Caller].therapistId
        /\ Fresh(lastPair[Caller].pre.therapists, lastPair[Caller].pre.clients,
                 lastPair[Caller].call.therapistId, lastPair[Caller].call.clientId))
       => Fresh(therapistTable', clientTable',
                lastPair[Caller].call.therapistId, lastPair[Caller].call.clientId)]_vars

\* the fields the pairing operations manage
PairingFields(therapists, clients) ==
    [therapists |-> [t \in DOMAIN therapists |->
                        [isPaired |-> therapists[t].isPaired,
                         clientId |-> therapists[t].clientId]],
     clients |-> [c \in DOMAIN clients |->
                        [status |-> clients[c].status,
                         therapistId |-> clients[c].therapistId]]]

\* C6: in every state reached by completed pair and unpair calls,
\* unpairTherapist(t) on a therapist whose isPaired is false returns normally
\* and leaves the pairing fields of every therapist and client as they were.
C6_IdempotentUnpair ==
    [][(/\ Returns(UnpairOp)
        /\ call'[Caller].therapistId \in DOMAIN Before.therapists
        /\ ~Before.therapists[call'[Caller].therapistId].isPaired)
       => /\ outcome'[Caller] = "ok"
          /\ PairingFields(therapistTable', clientTable')
               = PairingFields(Before.therapists, Before.clients)]_vars

\* C7: after any sequence of completed createTherapist, createClient,
\* pairTherapistWithClient and unpairTherapist calls, every stored therapist
\* has isPaired = true if and only if its clientId is set.
C7_PairedIffClientId ==
    Quiescent =>
        \A t \in DOMAIN therapistTable :
            therapistTable[t].isPaired <=> ~Unset(therapistTable[t].clientId)

\* C8: after any sequence of completed pair and unpair calls, every therapist
\* t with isPaired = true names in clientId an existing client c with
\* c.status = 'paired' and c.therapistId = t.
C8_ReferentialSymmetry ==
    Quiescent =>
        \A t \in DOMAIN therapistTable :
            therapistTable[t].isPaired =>
                StoredAsPaired(therapistTable, clientTable, t, therapistTable[t].clientId)

\* C9: after any sequence of completed createClient, pair and unpair calls,
\* every stored client c has status 'paired' if and only if its therapistId is
\* set and the therapist it names has clientId equal to c.
C9_ClientPairedIffLinked ==
    Quiescent =>
        \A c \in DOMAIN clientTable :
            (clientTable[c].status = "paired")
              <=> /\ ~Unset(clientTable[c].therapistId)
                  /\ clientTable[c].therapistId \in DOMAIN therapistTable
                  /\ therapistTable[clientTable[c].therapistId].clientId = c

\* C10: no entry of the list findNearestTherapists returns names a therapist
\* whose stored isPaired is true when the therapist collection is read,
\* however close that therapist is.
C10_PairedExcluded ==
    [][(pc[Caller] = "find_getAllTherapists" /\ Returns(FindOp))
       => \A i \in 1..Len(result'[Caller]) :
             /\ result'[Caller][i].therapistId \in DOMAIN therapistTable
             /\ ~therapistTable[result'[Caller][i].therapistId].isPaired]_vars

\* a list was returned although a paired therapist is strictly closer to the
\* client than every therapist in it
C10_Witness ==
    /\ pc[Caller] = "done" /\ call[Caller].op = FindOp /\ outcome[Caller] = "ok"
    /\ Len(result[Caller]) > 0
    /\ call[Caller].clientId \in DOMAIN clientTable
    /\ \E t \in DOMAIN therapistTable :
          /\ therapistTable[t].isPaired
          /\ \A i \in 1..Len(result[Caller]) :
                /\ result[Caller][i].therapistId # t
                /\ calculateDistance(clientTable[call[Caller].clientId].latitude,
                                     clientTable[call[Caller].clientId].longitude,
                                     therapistTable[t].latitude,
                                     therapistTable[t].longitude)
                     < result[Caller][i].distance

\* the therapists stored with isPaired = false
Unpaired == {t \in DOMAIN therapistTable : ~therapistTable[t].isPaired}

\* the distance between stored client c and stored therapist t
DistanceBetween(c, t) ==
    calculateDistance(clientTable[c].latitude, clientTable[c].longitude,
                      therapistTable[t].latitude, therapistTable[t].longitude)

Min(a, b) == IF a < b THEN a ELSE b

\* C11: for an existing client and a limit >= 0 (10 when omitted),
\* findNearestTherapists returns normally a list in ascending order of
\* distance that consists of exactly min(limit, n) of the n unpaired
\* therapists, each once and with its distance to the client, and no unpaired
\* therapist left out is nearer than one that is listed; with n = 0 the list
\* is empty.
C11_RankingCorrect ==
    [][(/\ pc[Caller] = "find_getAllTherapists" /\ Returns(FindOp)
        /\ call'[Caller].maxResults >= 0)
       => LET r == result'[Caller]
              c == call'[Caller].clientId
              listed == {r[i].therapistId : i \in 1..Len(r)}
          IN /\ outcome'[Caller] = "ok"
             /\ Len(r) = Min(call'[Caller].maxResults, Cardinality(Unpaired))
             /\ listed \subseteq Unpaired
             /\ Cardinality(listed) = Len(r)
             /\ \A i \in 1..Len(r) :
                   /\ r[i].clientId = c
                   /\ r[i].distance = DistanceBetween(c, r[i].therapistId)
             /\ \A i, j \in 1..Len(r) : i < j => r[i].distance <= r[j].distance
             /\ \A t \in Unpaired \ listed : \A i \in 1..Len(r) :
                   r[i].distance <= DistanceBetween(c, t)]_vars

\* limit 2 cut a list of three unpaired therapists that are stored in an order
\* other than that of their distances, leaving out the farthest
C11_Witness ==
    /\ pc[Caller] = "done" /\ call[Caller].op = FindOp /\ outcome[Caller] = "ok"
    /\ call[Caller].maxResults = 2
    /\ Cardinality(Unpaired) = 3
    /\ Len(result[Caller]) = 2
    /\ result[Caller][1].therapistId > result[Caller][2].therapistId
    /\ result[Caller][1].distance < result[Caller][2].distance
    /\ \E t \in Unpaired :
          result[Caller][2].distance < DistanceBetween(call[Caller].clientId, t)

DeleteClientOp == "deleteClient"

\* C12: deleteClient(c) on a client that is paired with therapist t when the
\* call begins unpairs first and removes the record after that: t is stored
\* with isPaired = false when the delete of c is issued, and when deleteClient
\* has returned c is not in the store and no therapist is stored with
\* isPaired = true and clientId = c.
C12_OwnershipCascade ==
    [][(/\ Returns(DeleteClientOp)
        /\ \E t \in DOMAIN Before.therapists :
              StoredAsPaired(Before.therapists, Before.clients, t, call'[Caller].clientId))
       => /\ outcome'[Caller] = "ok"
          /\ pc[Caller] = "deleteClient_delete"
          /\ \A t \in DOMAIN Before.therapists :
                StoredAsPaired(Before.therapists, Before.clients, t, call'[Caller].clientId)
                  => t \in DOMAIN therapistTable /\ ~therapistTable[t].isPaired
          /\ call'[Caller].clientId \notin DOMAIN clientTable'
          /\ \A t \in DOMAIN therapistTable' :
                ~(therapistTable'[t].isPaired
                  /\ therapistTable'[t].clientId = call'[Caller].clientId)]_vars

HandleUnpairOp == "handleUnpairTherapist"

\* C13: a POST /api/pairing/unpair request whose body names an existing,
\* currently paired therapist is answered with status 200 and leaves that
\* therapist stored with isPaired = false and its linked client with status
\* 'active'.
C13_UnpairEndpointUnpairs ==
    [][(/\ Returns(HandleUnpairOp)
        /\ call'[Caller].therapistId \in DOMAIN Before.therapists
        /\ Before.therapists[call'[Caller].therapistId].isPaired)
       => LET t == call'[Caller].therapistId
              c == Before.therapists[t].clientId
          IN /\ response'[Caller].status = "200"
             /\ t \in DOMAIN therapistTable' /\ ~therapistTable'[t].isPaired
             /\ c \in DOMAIN clientTable' => clientTable'[c].status = "active"]_vars

\* record rec without the fields named
Without(rec, fields) == [k \in DOMAIN rec \ fields |-> rec[k]]

\* the client the call is about: the clientId argument of a pair call, the
\* client the therapist named when an unpair call began
LinkedClient(c, therapists) ==
    IF c.op = PairOp THEN c.clientId
    ELSE IF c.therapistId \in DOMAIN therapists
    THEN therapists[c.therapistId].clientId
    ELSE Undefined

\* between the tables before and after, nothing differs except the fields
\* tFields of therapist t and the fields cFields of client c
OnlyChanged(before, therapists, clients, t, tFields, c, cFields) ==
    /\ DOMAIN therapists = DOMAIN before.therapists
    /\ DOMAIN clients = DOMAIN before.clients
    /\ \A x \in DOMAIN therapists :
          IF x = t THEN Without(therapists[x], tFields)
                          = Without(before.therapists[x], tFields)
          ELSE therapists[x] = before.therapists[x]
    /\ \A x \in DOMAIN clients :
          IF x = c THEN Without(clients[x], cFields)
                          = Without(before.clients[x], cFields)
          ELSE clients[x] = before.clients[x]

\* this step ends a pair or unpair call of the Caller that returns normally
PairingCompletes ==
    /\ pc'[Caller] = "done" /\ call'[Caller].op \in {PairOp, UnpairOp}
    /\ outcome'[Caller] = "ok"

\* C14 as stated: a completed pairTherapistWithClient(t, c) or
\* unpairTherapist(t) changes only isPaired/clientId of t and
\* status/therapistId of the linked client; every other field of the two
\* records and every other record is unchanged.
C14_FrameAsStated ==
    [][PairingCompletes
       => OnlyChanged(Before, therapistTable', clientTable',
                      call'[Caller].therapistId, {"isPaired", "clientId"},
                      LinkedClient(call'[Caller], Before.therapists),
                      {"status", "therapistId"})]_vars

\* C14 as amended: a completed pairTherapistWithClient(t, c) or
\* unpairTherapist(t) changes only isPaired/clientId/dateModified of t and
\* status/therapistId/dateModified of the linked client; every other field of
\* the two records and every other record is unchanged.
C14_Frame ==
    [][PairingCompletes
       => OnlyChanged(Before, therapistTable', clientTable',
                      call'[Caller].therapistId,
                      {"isPaired", "clientId", "dateModified"},
                      LinkedClient(call'[Caller], Before.therapists),
                      {"status", "therapistId", "dateModified"})]_vars

\* a pair call has returned: the two records were as created when it began, and
\* are now linked, stamped with a later dateModified and otherwise as created,
\* next to another therapist
C14_Witness ==
    /\ pc[Caller] = "done" /\ call[Caller].op = PairOp /\ outcome[Caller] = "ok"
    /\ lastPair[Caller].call = call[Caller]
    /\ LET t == call[Caller].therapistId
           c == call[Caller].clientId
           was == lastPair[Caller].pre
       IN /\ was.therapists[t].dateModified = CreationDate
          /\ was.clients[c].dateModified = CreationDate
          /\ therapistTable[t].dateModified = NewDate
          /\ clientTable[c].dateModified = NewDate
          /\ therapistTable[t].dateCreated = was.therapists[t].dateCreated
          /\ therapistTable[t].latitude = was.therapists[t].latitude
          /\ clientTable[c].dateCreated = was.clients[c].dateCreated
          /\ \E x \in DOMAIN therapistTable : x # t

\* no request is in flight
AllFinished == \A p \in Procs : pc[p] = "idle"

\* C15: in every interleaving of pairTherapistWithClient or unpairTherapist
\* with deleteTherapist or deleteClient, once all operations have finished
\* the store holds no record that a completed delete removed.
C15_NoResurrection ==
    AllFinished =>
        /\ deleted.therapists \cap DOMAIN therapistTable = {}
        /\ deleted.clients \cap DOMAIN clientTable = {}

\* the geocodeAddress call has returned or thrown
GeoOver == geocoding.pc \in {"returned", "thrown"}

\* the answer is a failure
Failed(answer) == answer.kind \notin {"none", "features"}

\* C16: a geocodeAddress call makes at most 4 upstream attempts (1 initial +
\* 3 retries) and then is over; it waits for a retry only after one of the
\* first 3, so a call whose attempts all fail with retryable errors throws
\* after the 4th; a call one of whose attempts succeeds returns the
\* coordinates of that attempt's answer and makes no further attempt.
C16_BoundedRetry ==
    /\ [](/\ geocoding.attempts <= MaxRetries + 1
          /\ geocoding.pc = "sleep" => geocoding.attempts <= MaxRetries
          /\ (geocoding.pc = "thrown" /\ isRetryableError(geocoding.lastError))
                => geocoding.attempts = MaxRetries + 1
          /\ geocoding.pc = "returned"
                => /\ geocoding.lastAnswer.kind = "features"
                   /\ geocoding.coordinates =
                        [latitude |-> geocoding.lastAnswer.position[2],
                         longitude |-> geocoding.lastAnswer.position[1]])
    /\ [][GeoOver => geocoding'.attempts = 0]_vars
    /\ (geocoding.pc = "getAccessToken") ~> GeoOver

\* four attempts failed with retryable errors and the call has thrown
C16_Witness ==
    /\ geocoding.pc = "thrown"
    /\ geocoding.attempts = MaxRetries + 1
    /\ geocoding.requests = MaxRetries + 1
    /\ geocoding.lastError = {"503"}

\* C19: a geocodeAddress call that makes n upstream attempts waits exactly
\* n - 1 times, each time after a failed attempt and before the next one: a
\* wait is pending only after a failure, every attempt but the first begins
\* right after a wait, and no wait follows the attempt that ends the call.
C19_SleepsBetweenAttempts ==
    /\ geocoding.pc = "getAccessToken" => geocoding.sleeps = geocoding.attempts
    /\ geocoding.pc = "fetch" => geocoding.sleeps = geocoding.attempts - 1
    /\ geocoding.pc = "sleep" => /\ geocoding.sleeps = geocoding.attempts - 1
                                 /\ Failed(geocoding.lastAnswer)
    /\ GeoOver => geocoding.sleeps = geocoding.attempts - 1

\* the third attempt succeeded after an HTTP 503: two waits, and the
\* coordinates of the third answer
C19_Witness ==
    /\ geocoding.pc = "returned"
    /\ geocoding.attempts = 3 /\ geocoding.sleeps = 2
    /\ geocoding.lastError = {"503"}
    /\ geocoding.lastAnswer = [kind |-> "features", position |-> <<1, 2>>]
    /\ geocoding.coordinates = [latitude |-> 2, longitude |-> 1]

\* HTTP 400, 403 or 404, or a feature collection without features
TerminalFailure(answer) ==
    \/ answer.kind = "http" /\ answer.status \in {"400", "403", "404"}
    \/ answer.kind = "noFeatures"

\* C17: for every address and every response body, when the first upstream
\* attempt ends with HTTP 400, 403 or 404 or with a feature collection that
\* has no features, geocodeAddress fails at once: one upstream attempt, no
\* wait.
C17_TerminalNotRetried ==
    (geocoding.attempts = 1 /\ TerminalFailure(geocoding.lastAnswer))
        => /\ geocoding.pc = "thrown"
           /\ geocoding.requests = 1
           /\ geocoding.sleeps = 0

\* a network error, any HTTP 5xx, HTTP 429 or HTTP 401
RetryableFailure(answer) ==
    \/ answer.kind = "networkError"
    \/ answer.kind = "http"
         /\ answer.status \in {"500", "501", "502", "503", "504", "429", "401"}

\* C18: whenever an attempt other than the 4th fails with a
\* network/timeout/connection error, with any HTTP 5xx status, with HTTP 429
\* or with HTTP 401, geocodeAddress goes on to another attempt instead of
\* failing.
C18_RetryableRetried ==
    (/\ geocoding.attempts <= MaxRetries
     /\ RetryableFailure(geocoding.lastAnswer))
        => geocoding.pc # "thrown"

\* C20: within one geocodeAddress call the bearer token is acquired again at
\* most once because of an authentication failure (no token, or HTTP 401) in
\* the attempt before; a token
\* is acquired before every upstream HTTP request, and an attempt whose token
\* acquisition failed sends no request.
C20_OneReacquisition ==
    /\ geocoding.reacquired <= 1
    /\ geocoding.requests <= geocoding.tokens
    /\ geocoding.pc = "fetch" => geocoding.scope \in {Scopes[i] : i \in 1..Len(Scopes)}
    /\ geocoding.lastAnswer = TokenFailure => geocoding.requests < geocoding.attempts

DeleteTherapistOp == "deleteTherapist"

\* C30: in every state reached after any sequence of completed create, pair,
\* unpair, deleteTherapist and deleteClient operations, every client with
\* status 'paired' names in therapistId a therapist that still exists in the
\* store.
C30_NoDanglingPairing ==
    Quiescent =>
        \A c \in DOMAIN clientTable :
            clientTable[c].status = "paired"
              => clientTable[c].therapistId \in DOMAIN therapistTable

\* C25: when two unpaired therapists are at equal distance from the client,
\* findNearestTherapists returns them in the order in which the store listed
\* them (ascending row key), and a therapist the limit cut off comes, in that
\* order, after every listed therapist at its distance.
C25_StableTieBreak ==
    [][(pc[Caller] = "find_getAllTherapists" /\ Returns(FindOp))
       => LET r == result'[Caller]
              c == call'[Caller].clientId
              listed == {r[i].therapistId : i \in 1..Len(r)}
          IN /\ \A i, j \in 1..Len(r) :
                   (i < j /\ r[i].distance = r[j].distance)
                      => r[i].therapistId < r[j].therapistId
             /\ \A t \in Unpaired \ listed : \A i \in 1..Len(r) :
                   r[i].distance = DistanceBetween(c, t)
                      => r[i].therapistId < t]_vars

\* three unpaired therapists at one distance from the client, limit 2: the
\* first two of the listing were returned in its order, the third was cut off
C25_Witness ==
    /\ pc[Caller] = "done" /\ call[Caller].op = FindOp /\ outcome[Caller] = "ok"
    /\ call[Caller].maxResults = 2
    /\ Cardinality(Unpaired) = 3
    /\ \A t \in Unpaired :
          DistanceBetween(call[Caller].clientId, t) = result[Caller][1].distance
    /\ result[Caller][1].distance > 0
    /\ <<result[Caller][1].therapistId, result[Caller][2].therapistId>> = <<1, 2>>

\* t is stored unpaired with the clientId of its last pairing, which
\* unpairTherapist leaves in the row: t was paired and has been freed
Freed(therapists, t) ==
    /\ t \in DOMAIN therapists
    /\ ~therapists[t].isPaired /\ ~Unset(therapists[t].clientId)

C26_BackoffMagnitude ==
    [][(geocoding.pc = "sleep" /\ geocoding'.pc # "sleep")
       => LET k == geocoding.attempt
              d == geocoding'.delay
          IN /\ k \in 0..2
             /\ 1000 * 2^k <= d /\ d < 1000 * 2^k + 1000
             /\ k = 0 => (1000 <= d /\ d < 2000)
             /\ k = 1 => (2000 <= d /\ d < 3000)
             /\ k = 2 => (4000 <= d /\ d < 5000)
             /\ geocoding.delay < d]_vars

\* the third sleep of a call is over; it had the greatest jitter
C26_Witness ==
    /\ geocoding.sleeps = 3
    /\ geocoding.attempt = 3
    /\ geocoding.delay = 4999

\* the scopes of Scopes that name Azure Maps
MapsScopes == {"https://atlas.microsoft.com/.default",
               "https://atlas.microsoft.com/user_impersonation"}

\* C27: getAccessToken tries its scopes in a fixed order, the maps scopes
\* before the management scope; it returns the token of the first scope for
\* which getToken yields a token and asks for no later scope, and it fails
\* with an authentication error only when no scope yielded a token, having
\* asked for all of them.
C27_ScopeFallback ==
    /\ \A i, j \in 1..Len(Scopes) :
          (Scopes[i] \in MapsScopes /\ Scopes[j] \notin MapsScopes) => i < j
    /\ geocoding.tokens > 0 =>
          LET yielding == {i \in 1..Len(Scopes) : geocoding.credential[i] = "token"}
          IN IF yielding # {}
             THEN /\ geocoding.scope = Scopes[geocoding.tried]
                  /\ geocoding.tried \in yielding
                  /\ \A i \in yielding : geocoding.tried <= i
                  /\ geocoding.lastAnswer # TokenFailure
             ELSE /\ geocoding.tried = Len(Scopes)
                  /\ geocoding.scope = "none"
                  /\ geocoding.lastAnswer = TokenFailure
                  /\ geocoding.pc \in {"sleep", "thrown"}

\* the first scope threw, the second yielded a token, and so would have the
\* third: the token is that of the second scope and the third was not asked
C27_Witness ==
    /\ geocoding.pc = "fetch"
    /\ geocoding.credential = <<"throws", "token", "token">>
    /\ geocoding.tried = 2
    /\ geocoding.scope = "https://atlas.microsoft.com/user_impersonation"

CreateOps == {"createTherapist", "createClient"}

\* the coordinates stored in the row with the greatest key
LastRow(table) ==
    [latitude |-> table[Len(table)].latitude, longitude |-> table[Len(table)].longitude]

\* C22: when the geocodeAddress call of createTherapist or createClient has
\* failed (terminal error or retries exhausted), the creation throws and the
\* tables are as they were; a creation that returns has stored one new row,
\* with the coordinates of the geocoder's answer.  (The steps that leave the
\* geocodeAddress call as it is are those of the creations.)
C22_GeocodingFailureSurfaced ==
    [][(/\ geocoding.pc \in {"returned", "thrown"} /\ geocoding' = geocoding
        /\ pc'[Caller] = "done" /\ call'[Caller].op \in CreateOps)
       => IF geocoding.pc = "thrown"
          THEN /\ outcome'[Caller] # "ok"
               /\ therapistTable' = therapistTable
               /\ clientTable' = clientTable
          ELSE /\ outcome'[Caller] = "ok"
               /\ geocoding.lastAnswer.kind = "features"
               /\ LET at == [latitude |-> geocoding.lastAnswer.position[2],
                             longitude |-> geocoding.lastAnswer.position[1]]
                  IN IF call'[Caller].op = "createTherapist"
                     THEN /\ Len(therapistTable') = Len(therapistTable) + 1
                          /\ LastRow(therapistTable') = at
                          /\ clientTable' = clientTable
                     ELSE /\ Len(clientTable') = Len(clientTable) + 1
                          /\ LastRow(clientTable') = at
                          /\ therapistTable' = therapistTable]_vars

\* createTherapist has thrown after a geocodeAddress call that used up its
\* four attempts, and the store holds what it held: one therapist
C22_Witness ==
    /\ pc[Caller] = "done" /\ call[Caller].op = "createTherapist"
    /\ outcome[Caller] = "Failed to geocode address"
    /\ geocoding.pc = "thrown" /\ geocoding.attempts = MaxRetries + 1
    /\ Len(therapistTable) = 1 /\ nextTherapistId = 2
    /\ clientTable = << >>

StoreReadErrors == {"Failed to get entity", "Failed to list entities"}
StoreErrors == StoreReadErrors \cup {"Failed to upsert entity"}

\* this step ends a findNearestTherapists, pairTherapistWithClient or
\* unpairTherapist call of the Caller
PairingReturns == Returns(FindOp) \/ Returns(PairOp) \/ Returns(UnpairOp)

\* a not-found error names a record the store does not hold: the therapist or
\* client of the call, or the client the therapist named when the call began
NotFoundIsAbsent ==
    /\ outcome'[Caller] = "Therapist not found"
          => call'[Caller].therapistId \notin DOMAIN therapistTable
    /\ outcome'[Caller] = "Client not found"
          => LinkedClient(call'[Caller], Before.therapists) \notin DOMAIN clientTable

HalfPaired(therapists, clients, t, c) ==
    /\ t \in DOMAIN therapists /\ c \in DOMAIN clients
    /\ therapists[t].isPaired = TRUE /\ therapists[t].clientId = c
    /\ clients[c].status # "paired"

\* C29: pairTherapistWithClient(t, c) writes the therapist record before the
\* client record and writes nothing before its checks have passed; when the
\* client write fails after the therapist write, t is stored as paired with c
\* and c is unchanged; an unpairTherapist(t) that then completes leaves
\* t.isPaired = false and c.status = 'active'; and from there
\* pairTherapistWithClient(t, c) succeeds unless the store fails again.
C29_HalfPairingRepairable ==
    [][/\ (call'[Caller].op = PairOp /\ therapistTable' # therapistTable)
          => /\ pc[Caller] = "updateTherapist_upsert"
             /\ Pairable(Before.therapists, Before.clients,
                         call'[Caller].therapistId, call'[Caller].clientId)
             /\ clientTable' = Before.clients
       /\ (call'[Caller].op = PairOp /\ clientTable' # clientTable)
          => /\ pc[Caller] = "updateClient_upsert"
             /\ HalfPaired(therapistTable, clientTable,
                           call'[Caller].therapistId, call'[Caller].clientId)
       /\ (/\ Returns(PairOp) /\ pc[Caller] = "updateClient_upsert"
            /\ outcome'[Caller] = "Failed to upsert entity")
          => /\ HalfPaired(therapistTable', clientTable',
                           call'[Caller].therapistId, call'[Caller].clientId)
             /\ clientTable' = Before.clients
       /\ (/\ Returns(UnpairOp) /\ outcome'[Caller] = "ok"
            /\ \E c \in DOMAIN Before.clients :
                  HalfPaired(Before.therapists, Before.clients,
                             call'[Caller].therapistId, c))
          => LET t == call'[Caller].therapistId
                 c == Before.therapists[t].clientId
             IN /\ t \in DOMAIN therapistTable' /\ ~therapistTable'[t].isPaired
                /\ c \in DOMAIN clientTable' /\ clientTable'[c].status = "active"
       /\ (/\ Returns(PairOp)
            /\ Freed(Before.therapists, call'[Caller].therapistId)
            /\ Before.therapists[call'[Caller].therapistId].clientId
                  = call'[Caller].clientId
            /\ call'[Caller].clientId \in DOMAIN Before.clients
            /\ Before.clients[call'[Caller].clientId].status = "active"
            /\ outcome'[Caller] \notin StoreErrors)
          => /\ outcome'[Caller] = "ok"
             /\ StoredAsPaired(therapistTable', clientTable',
                               call'[Caller].therapistId, call'[Caller].clientId)]_vars

\* pairTherapistWithClient(t, c) has succeeded on a therapist that was stored
\* unpaired with clientId = c and a client that an unpair had reset but that
\* had never named a therapist: a half-completed pairing was undone and then
\* made again
C29_Witness ==
    /\ pc[Caller] = "done" /\ call[Caller].op = PairOp /\ outcome[Caller] = "ok"
    /\ lastPair[Caller].call = call[Caller]
    /\ LET t == call[Caller].therapistId
           c == call[Caller].clientId
           was == lastPair[Caller].pre
       IN /\ Freed(was.therapists, t) /\ was.therapists[t].clientId = c
          /\ was.clients[c].status = "active"
          /\ Unset(was.clients[c].therapistId)
          /\ was.clients[c].dateModified = NewDate
          /\ StoredAsPaired(therapistTable, clientTable, t, c)

\* C21: a frontend geocodeAddress call that starts after a call on an address
\* with the same formatted string, letter case ignored, has succeeded, with
\* no clearCache in between, issues no upstream request (so the two issue
\* one) and returns the coordinates that call returned.
C21_CacheHitAvoidsNetwork ==
    [][\A q \in MapCallers :
          (/\ frontend.calls[q].pc # "fetch"
           /\ frontend'.calls[q] # frontend.calls[q]
           /\ toLowerCase(formatAddressForGeocoding(frontend'.calls[q].address))
                 \in DOMAIN frontend.served)
          => /\ frontend'.calls[q].pc = "returned"
             /\ frontend'.calls[q].upstream = 0
             /\ frontend'.calls[q].coordinates =
                   frontend.served[toLowerCase(
                       formatAddressForGeocoding(frontend'.calls[q].address))]]_vars

\* caller 2 geocoded an address in upper case upstream; caller 1 then geocoded
\* it in lower case and got the same coordinates without an upstream request
C21_Witness ==
    /\ frontend.calls[2] =
          [pc |-> "returned",
           address |-> [street1 |-> <<"M">>, city |-> <<"A">>, state |-> <<"W">>,
                        zipCode |-> <<"9">>],
           coordinates |-> [latitude |-> 48, longitude |-> -122], upstream |-> 1]
    /\ frontend.calls[1] =
          [pc |-> "returned",
           address |-> [street1 |-> <<"m">>, city |-> <<"a">>, state |-> <<"w">>,
                        zipCode |-> <<"9">>],
           coordinates |-> [latitude |-> 48, longitude |-> -122], upstream |-> 0]
    /\ DOMAIN frontend.cache = {<<"m", ",", " ", "a", ",", " ", "w", ",", " ", "9">>}

\* C23: for all coordinate pairs (a, b) within the valid latitude and
\* longitude ranges, calculateDistance gives the same distance from a to b as
\* from b to a.
C23_DistanceSymmetry ==
    call[Caller].op = "calculateDistance"
      => LET d == result[Caller][1]
         IN d.distance = calculateDistance(d.to.latitude, d.to.longitude,
                                           d.from.latitude, d.from.longitude)

\* the distance between two points that differ in latitude, in the cosine of
\* their latitude and in longitude
C23_Witness ==
    /\ call[Caller].op = "calculateDistance"
    /\ result[Caller][1].from = [latitude |-> 60, longitude |-> -150]
    /\ result[Caller][1].to = [latitude |-> -30, longitude |-> 120]
    /\ result[Caller][1].distance > 0

\* C31: in every state reached by completed create, pair, unpair,
\* deleteTherapist and deleteClient calls, deleteClient(c) on a client c that
\* is in the store completes without error, and c is not in the store after it.
C31_DeleteClientRemoves ==
    [][(/\ Returns(DeleteClientOp)
        /\ call'[Caller].clientId \in DOMAIN Before.clients)
       => /\ outcome'[Caller] = "ok"
          /\ call'[Caller].clientId \notin DOMAIN clientTable']_vars

\* therapist t is stored as paired with client c
PairedWith(therapists, t, c) ==
    therapists[t].isPaired /\ therapists[t].clientId = c

\* C32: in every state reached by completed pair and unpair calls,
\* deleteClient(c) leaves the pairing fields of every therapist that is not
\* paired with c, and of every client other than c, as they were; a therapist
\* that is paired with another client stays paired with it, and that client
\* keeps status 'paired'.
C32_DeleteClientFrame ==
    [][Returns(DeleteClientOp)
       => LET c == call'[Caller].clientId
              was == PairingFields(Before.therapists, Before.clients)
              now == PairingFields(therapistTable', clientTable')
          IN /\ \A t \in DOMAIN Before.therapists :
                   ~PairedWith(Before.therapists, t, c)
                     => t \in DOMAIN therapistTable' /\ now.therapists[t] = was.therapists[t]
             /\ \A c2 \in DOMAIN Before.clients \ {c} :
                   c2 \in DOMAIN clientTable' /\ now.clients[c2] = was.clients[c2]]_vars

\* C33: of the frontend geocodeAddress calls that overlap in time, no two
\* with the same cache key have an upstream request in flight: calls that
\* overlap on one key issue at most one upstream request.
C33_OverlappingShareUpstream ==
    \A q1, q2 \in MapCallers :
       (/\ q1 # q2
        /\ frontend.calls[q1].pc = "fetch"
        /\ frontend.calls[q2].pc = "fetch")
       => CacheKey(frontend.calls[q1].address) # CacheKey(frontend.calls[q2].address)

\* this step begins the geocodeAddress call of caller q
MapCallBegins(q) ==
    frontend.calls[q].pc # "fetch" /\ frontend'.calls[q] # frontend.calls[q]

\* C34: a frontend geocodeAddress call that fails ends in a GeocodingError
\* that carries the address and leaves the cache as it was; a call for an
\* address for which no call has succeeded since the last clearCache, whatever
\* calls have failed, issues an upstream request; an entry enters the cache
\* only as the coordinates a successful upstream call returns; and clearCache
\* empties the cache, so that the call that follows it goes upstream.
C34_FailuresNotCached ==
    [][/\ \A q \in MapCallers :
             (frontend.calls[q].pc = "fetch" /\ frontend'.calls[q].pc = "thrown")
             => /\ frontend'.cache = frontend.cache
                /\ frontend'.calls[q].address = frontend.calls[q].address
       /\ \A q \in MapCallers :
             (/\ MapCallBegins(q)
              /\ toLowerCase(formatAddressForGeocoding(frontend'.calls[q].address))
                    \notin DOMAIN frontend.served)
             => frontend'.calls[q].pc = "fetch" /\ frontend'.calls[q].upstream = 1
       /\ frontend'.cache # frontend.cache
             => \/ frontend'.cache = EmptyCache
                \/ \E q \in MapCallers :
                      /\ frontend.calls[q].pc = "fetch"
                      /\ frontend'.calls[q].pc = "returned"
                      /\ frontend'.calls[q].upstream = 1
                      /\ frontend'.cache =
                            MapSet(frontend.cache, CacheKey(frontend.calls[q].address),
                                   frontend'.calls[q].coordinates)
       /\ (frontend' # frontend /\ frontend'.calls = frontend.calls)
             => frontend'.cache = EmptyCache
       /\ \A q \in MapCallers :
             (MapCallBegins(q) /\ frontend.cache = EmptyCache)
             => frontend'.calls[q].pc = "fetch" /\ frontend'.calls[q].upstream = 1]_vars

\* another address is cached; caller 1's call on an address has failed, and
\* caller 2's call on the same address has its upstream request in flight
C34_Witness ==
    /\ DOMAIN frontend.cache = {<<"n", ",", " ", "a", ",", " ", "w", ",", " ", "9">>}
    /\ frontend.calls[1].pc = "thrown"
    /\ frontend.calls[2].pc = "fetch" /\ frontend.calls[2].upstream = 1
    /\ frontend.calls[1].address = frontend.calls[2].address
    /\ frontend.calls[1].address.street1 = <<"M">>

GeocodeOp == "geocode"

\* this step ends a geocode request with the status given
AnswersWith(status) == Returns(GeocodeOp) /\ response'[Caller].status = status

\* C38: POST /api/geocode answers 404 only when the upstream returned no
\* results, 503 only when no token could be had or the upstream answered 401,
\* 429 only when the upstream answered 429, and 500 for every other failure
\* of the geocoder; a request that fails validation is answered 400 and the
\* geocoder is not called.
C38_StatusReflectsCause ==
    [][/\ AnswersWith("404") => geocoding.lastAnswer.kind = "noFeatures"
       /\ AnswersWith("503") => AuthenticationFailure(geocoding.lastAnswer)
       /\ AnswersWith("429") => /\ geocoding.lastAnswer.kind = "http"
                            /\ geocoding.lastAnswer.status = "429"
       /\ (/\ Returns(GeocodeOp)
           /\ geocoding.pc = "thrown"
           /\ pc[Caller] = "geocode_await"
           /\ geocoding.lastAnswer.kind # "noFeatures"
           /\ ~AuthenticationFailure(geocoding.lastAnswer)
           /\ ~(geocoding.lastAnswer.kind = "http" /\ geocoding.lastAnswer.status = "429"))
          => response'[Caller].status = "500"
       /\ AnswersWith("400") => CanStart(Caller) /\ geocoding' = geocoding]_vars

\* the latitudes and longitudes the spec allows
ValidLatitude(x) == -90 <= x /\ x <= 90
ValidLongitude(x) == -180 <= x /\ x <= 180

\* C35: whenever POST /api/geocode has answered 200 with a latitude in
\* [-90, 90] and a longitude in [-180, 180], a latitude or longitude of 0
\* included, the frontend call that gets this answer returns exactly that
\* pair, and the pair is in the cache under the key of the call's address.
C35_ValidPairAccepted ==
    [][\A q \in MapCallers :
          (/\ frontend.calls[q].pc = "fetch"
           /\ frontend'.calls[q].pc \in {"returned", "thrown"}
           /\ response[Caller].status = "200"
           /\ ValidLatitude(response[Caller].jsonBody.latitude)
           /\ ValidLongitude(response[Caller].jsonBody.longitude))
          => /\ frontend'.calls[q].pc = "returned"
             /\ frontend'.calls[q].coordinates = response[Caller].jsonBody
             /\ CacheKey(frontend.calls[q].address) \in DOMAIN frontend'.cache
             /\ frontend'.cache[CacheKey(frontend.calls[q].address)]
                   = response[Caller].jsonBody]_vars

HandleFindOp == "handleGetNearestTherapists"

\* the whole parameter is a decimal integer
IsInteger(param) ==
    /\ param.present
    /\ ~parseInt(param.value).nan
    /\ LET s == param.value
       IN Len(DigitPrefix(IF Head(s) \in {"-", "+"} THEN Tail(s) ELSE s))
             = Len(s) - (IF Head(s) \in {"-", "+"} THEN 1 ELSE 0)

\* the greatest length the list may have: max(limit, 0) for a limit that is
\* an integer and the default for no parameter; a parameter that is not an
\* integer is held to the default only
LimitBound(param) ==
    IF ~param.present THEN DefaultMaxResults
    ELSE IF IsInteger(param)
    THEN (IF parseInt(param.value).value < 0 THEN 0 ELSE parseInt(param.value).value)
    ELSE DefaultMaxResults

\* C36: for every ?limit= the nearest-therapists handler accepts (absent, 0,
\* positive, negative, not a number), the list it answers with has at most
\* max(limit, 0) entries, an absent parameter meaning 10.
C36_LimitBoundsResult ==
    [][(Returns(HandleFindOp) /\ response'[Caller].status = "200")
       => Len(result'[Caller]) <= LimitBound(call'[Caller].limit)]_vars

\* this step ends a successful unpairTherapist(t) that follows a successful
\* pairTherapistWithClient(t, c) begun with c 'inactive'
UnpairsInactive ==
    /\ Returns(UnpairOp)
    /\ outcome'[Caller] = "ok"
    /\ lastPair[Caller].call.op = PairOp
    /\ lastPair[Caller].call.therapistId = call'[Caller].therapistId
    /\ lastPair[Caller].pre.clients[lastPair[Caller].call.clientId].status = "inactive"

\* this step ends a pairTherapistWithClient(t, c) begun with t unpaired and c
\* 'inactive'
PairsInactive ==
    /\ Returns(PairOp)
    /\ call'[Caller].therapistId \in DOMAIN Before.therapists
    /\ call'[Caller].clientId \in DOMAIN Before.clients
    /\ ~Before.therapists[call'[Caller].therapistId].isPaired
    /\ Before.clients[call'[Caller].clientId].status = "inactive"

\* C37 as stated: for a client c that is 'inactive' before it is paired,
\* pairTherapistWithClient(t, c) is accepted, and after the unpairTherapist(t)
\* that follows the status of c is 'inactive' again.
C37_RoundTripKeepsInactive ==
    [][/\ PairsInactive => outcome'[Caller] = "ok"
       /\ UnpairsInactive
             => clientTable'[lastPair[Caller].call.clientId].status = "inactive"]_vars

\* C37: for a client c that is 'inactive' before it is paired,
\* pairTherapistWithClient(t, c) with an unpaired therapist t is accepted and
\* leaves c 'paired', and after the unpairTherapist(t) that follows the
\* status of c is 'active': unpairing does not restore the earlier status.
C37_RoundTripActivates ==
    [][/\ PairsInactive
             => /\ outcome'[Caller] = "ok"
                /\ clientTable'[call'[Caller].clientId].status = "paired"
       /\ UnpairsInactive
             => clientTable'[lastPair[Caller].call.clientId].status = "active"]_vars

\* client 1 was 'inactive' when it was paired with therapist 1; the
\* unpairTherapist(1) that follows has reset it and goes on to the therapist
C37_Witness ==
    /\ call[Caller].op = UnpairOp /\ call[Caller].therapistId = 1
    /\ pc[Caller] = "updateTherapist_get"
    /\ lastPair[Caller].call.op = PairOp
    /\ lastPair[Caller].call.therapistId = 1 /\ lastPair[Caller].call.clientId = 1
    /\ lastPair[Caller].pre.clients[1].status = "inactive"
    /\ ~lastPair[Caller].pre.therapists[1].isPaired
    /\ StoredAsPaired(pre[Caller].therapists, pre[Caller].clients, 1, 1)
    /\ clientTable[1].status = "active"

====
